---- MODULE Spec2Model ----
(***************************************************************************)
(* ObservableJS reactive core: Observable (packages/core/src/observable.js)*)
(* computed (packages/core/src/computed.js) and the ObservabilitySystem    *)
(* singleton (observability.js).  Every handler runs synchronously to      *)
(* completion, so each public operation is one action; the notification    *)
(* cascade of a write is computed by mutually recursive operators over a   *)
(* record holding the mutable program state.                               *)
(*                                                                         *)
(* Not modelled: wall-clock timestamps (Date.now, lastAccessed), console   *)
(* output, and the floating point value of elapsed times; an elapsed time  *)
(* is FastTime or SlowTime, chosen by the environment.                     *)
(***************************************************************************)
EXTENDS Integers, Sequences, FiniteSets, TLC

(***************************************************************************)
(* Bounds of the model.                                                    *)
(***************************************************************************)
MaxObs == 3        \* observables (plain or computed) that may be created
MaxIds == 4        \* ids that may be given out: SpecDiamond creates four observables
MaxSources == 2    \* of which plain observables, created first
MaxWrites == 2     \* application calls of the value setter / silentSet
MaxSubs == 1       \* application calls of subscribe
MaxMisc == 1       \* application calls of anything else
\* Bounds of SpecCell: plain observables and their subscribers only.
MaxCells == 1
CellWrites == 3
CellSubs == 3
CellMisc == 2
\* Bounds of SpecDispose: repeated calls of dispose.
MaxDisposes == 2
DisposeWrites == 2
\* Bounds of SpecNested: a subscriber that writes into its own observable.
NestWrites == 2
NestSubs == 3
NestMisc == 1
BindSubs == 3
BindWrites == 2
\* Bounds of SpecLogs: the bounded logs of the ObservabilitySystem.
MaxPushes == 12      \* ticks and direct calls that record
LogConfigures == 1   \* calls of configure
LogTimers == 1       \* calls of startPeriodicCollection
\* Bounds of SpecHistory: the read/write history of detailed mode.
HistoryOps == 11     \* reads and writes
\* Bounds of SpecConfig: configure with arbitrary numbers.
MaxConfigures == 2
ConfigPushes == 2
\* Bounds of SpecMonitor: the registry, the global counters and the queries.
MonitorUses == 2     \* reads, writes and renders
MonitorResets == 1   \* calls of resetMetrics
MonitorQueries == 1  \* calls of getMetrics and exportToPrometheus
\* Bounds of SpecHot: entities that are written and rendered often.
BurstWrites == 20    \* writes of one loop of the application
BurstRenders == 10   \* renders of one loop of the application
HotSingles == 2      \* single writes or renders per entity, and loops after
HotSilentSets == 1   \* calls of silentSet
HotQueries == 1      \* calls of findHotspots
\* Bounds of SpecTimer: periodic collection started and cancelled.
TimerCalls == 4      \* calls of startPeriodicCollection and of its handles
TimerTicks == 3      \* runs of a timer callback
TimerReads == 2      \* reads of the observable
\* Bounds of SpecDiamond: two computeds over one observable, one over both.
DiamondWrites == 2
DiamondSubs == 2
\* Bounds of SpecSampling: the reactive core under every configuration.
SamplingConfigures == 1
SamplingUses == 3    \* reads, writes, subscriptions and recomputations
\* Bounds of SpecReport: queries made one after the other.
MaxReportIds == 2    \* observables, computeds and components
ReportUses == 2      \* reads, writes, renders, subscriptions and recomputations
ReportQueries == 2   \* calls of the four query operations
\* Bounds of SpecArgs: calls with arguments of the wrong type.
MaxArgUses == 3    \* writes, calls of subscribe and of dispose
MaxFailIds == 2    \* SpecFail: observables, computeds and components
MaxFailUses == 2   \* SpecFail: subscriptions, recomputations and direct calls
FailQueries == 1   \* SpecFail: calls of getMetrics and findHotspots
\* Bounds of SpecThrow: callbacks and compute functions that throw null.
ThrowWrites == 1
ThrowSubs == 2
ThrowMisc == 1

(***************************************************************************)
(* Program constants.                                                      *)
(***************************************************************************)
SlowThreshold == 10           \* computed.js: thisComputeTime > 10
DefaultMaxHistoryItems == 1000
DefaultMaxIssues == 100
DefaultMaxErrors == 50
DefaultSamplingRate == 10     \* samplingRate 1, in tenths
FullRate == 10                \* configure: Math.min(1, ...), in tenths
MinCap == 10                  \* configure: Math.max(10, ...)
FastTime == 0                 \* an elapsed time below the slow threshold
SlowTime == 11                \* an elapsed time above the slow threshold
FrameBudget == 16             \* component.js: thisRenderTime > 16
LongTime == 17                \* an elapsed time above the frame budget
HotRenders == 10              \* findHotspots: metrics.renders > 10
HotRenderTime == 10           \* findHotspots: metrics.lastRenderTime > 10
HotWrites == 20               \* findHotspots: metrics.writes > 20
TopCount == 5                 \* findHotspots: slice(0, 5)

(***************************************************************************)
(* JavaScript values.  Every value is a record [t, n, s]: numbers carry n, *)
(* objects carry their reference in n (two objects of the same structure   *)
(* differ only there), strings carry their characters in s.                *)
(***************************************************************************)
Num(k) == [t |-> "num", n |-> k, s |-> <<>>]
Undefined == [t |-> "undefined", n |-> 0, s |-> <<>>]
NaN == [t |-> "NaN", n |-> 0, s |-> <<>>]
Obj(r) == [t |-> "obj", n |-> r, s |-> <<>>]
Infinity == [t |-> "inf", n |-> 1, s |-> <<>>]
NegInfinity == [t |-> "inf", n |-> -1, s |-> <<>>]
Bool(b) == [t |-> "bool", n |-> IF b THEN 1 ELSE 0, s |-> <<>>]
Str(cs) == [t |-> "str", n |-> 0, s |-> cs]
Null == [t |-> "null", n |-> 0, s |-> <<>>]

\* Values the application writes or creates observables with.
InitVals == {Num(1)}
WriteVals == {Num(2), Obj(1), NaN}
CellVals == WriteVals \cup {Obj(2)}

\* x and y have the same structure (deep equality): objects of the model
\* are all empty object literals.
DeepEqual(x, y) == IF x.t = "obj" /\ y.t = "obj" THEN TRUE ELSE x = y

\* The === operator: like Object.is except that NaN is unequal to itself.
StrictEquals(x, y) == x = y /\ x.t # "NaN"

\* Object.is(x, y): same primitive value (NaN is NaN) or same reference.
ObjectIs(x, y) == x = y

\* x > y of JavaScript on numbers: false when either side is NaN.
JsGt(x, y) ==
  CASE x.t = "NaN" \/ y.t = "NaN" -> FALSE
    [] x.t = "inf" -> x.n = 1 /\ y # Infinity
    [] y.t = "inf" -> y.n = -1
    [] OTHER -> x.n > y.n

\* Math.max(x, y) and Math.min(x, y): NaN when either argument is NaN.
MathMax(x, y) ==
  IF x.t = "NaN" \/ y.t = "NaN" THEN NaN ELSE IF JsGt(y, x) THEN y ELSE x
MathMin(x, y) ==
  IF x.t = "NaN" \/ y.t = "NaN" THEN NaN ELSE IF JsGt(x, y) THEN y ELSE x

\* typeof x === 'number'
IsNumber(x) == x.t \in {"num", "NaN", "inf"}
\* !!x
Truthy(x) ==
  CASE x.t \in {"undefined", "NaN"} -> FALSE
    [] x.t \in {"num", "bool"} -> x.n # 0
    [] x.t = "str" -> x.s # <<>>
    [] OTHER -> TRUE

DigitChar == <<"0", "1", "2", "3", "4", "5", "6", "7", "8", "9">>

RECURSIVE Digits(_)
Digits(k) == IF k < 10 THEN <<DigitChar[k + 1]>>
             ELSE Digits(k \div 10) \o <<DigitChar[(k % 10) + 1]>>

\* String(x), as the + operator applies it to its operands.
ToStr(x) ==
  CASE x.t = "num" -> Digits(x.n)
    [] x.t = "undefined" -> <<"undefined">>
    [] x.t = "NaN" -> <<"NaN">>
    [] x.t = "obj" -> <<"[object Object]">>
    [] x.t = "str" -> x.s

\* x + y of JavaScript.
JsAdd(x, y) ==
  IF x.t \in {"obj", "str"} \/ y.t \in {"obj", "str"}
  THEN Str(ToStr(x) \o ToStr(y))
  ELSE IF x.t = "num" /\ y.t = "num" THEN Num(x.n + y.n) ELSE NaN

(***************************************************************************)
(* Callbacks.  The application owns two loggers (record the value they     *)
(* receive) and one callback that throws; computed() creates one closure   *)
(* per dependency entry, [k |-> "comp", n |-> computed id, i |-> index].   *)
(***************************************************************************)
Logger(j) == [k |-> "log", n |-> j, i |-> 0]
Thrower == [k |-> "throw", n |-> 0, i |-> 0]       \* throw new Error(...)
NullThrower == [k |-> "thrownull", n |-> 0, i |-> 0] \* throw null
Trigger(c, j) == [k |-> "comp", n |-> c, i |-> j]
\* What the application passes where a function is expected: typeof x is
\* not 'function' for null, for a number and for a plain object.
NotAFunction(x) == [k |-> "value", n |-> x, i |-> 0]
IsFunction(cb) == cb.k # "value"
\* A subscriber that writes the object r into observable o when it is called.
Writer(o, r) == [k |-> "write", n |-> o, i |-> r]
\* A subscriber that writes the value it receives into observable o.
Forward(o) == [k |-> "fwd", n |-> o, i |-> 0]
AppCallbacks == {Logger(1), Logger(2), Thrower}
AllCallbacks == AppCallbacks \cup {NullThrower}

Ids == 1..MaxIds
MetricNames == {"readTime", "writeTime", "updateTime", "subscriberCount",
                "derivedComputeTime", "initialComputeTime", "custom",
                "componentRenderTime"}
\* What a compute function does when it is called: return the sum of its
\* sources quickly, return it after more than the slow threshold, throw an
\* Error, or throw null.
Modes == {"ok", "slow", "throws"}
AllModes == Modes \cup {"thrownull"}

VARIABLES
  nextId,            \* observability.js: let nextId
  _observables,      \* ObservabilitySystem._observables (its keys)
  _components,       \* ObservabilitySystem._components: id -> component
  timers,            \* the interval timers set so far: TRUE while running
  _value,            \* Observable._value, by id
  _subscribers,      \* Observable._subscribers, in insertion order
  _metrics,          \* Observable._metrics: reads, writes, subscriptions, history
  _computeMetrics,   \* result._computeMetrics: totalComputations, errors
  computeds,         \* the closures of computed(): deps, lazy, unsubscribers
  mode,              \* what each compute function does when called
  handles,           \* unsubscribe functions the application holds: the
                     \* g-th call of subscribe returned [o, cb, g]
  errors,            \* _metrics.global.errors
  performanceIssues, \* _metrics.global.performanceIssues
  detailed,          \* _metrics.detailed: metric name -> series
  memoryUsage,       \* _metrics.global.memoryUsage
  totals,            \* _metrics.global.totalReads, totalWrites, totalRenders
                     \* and slowRenders
  isDetailedMode, samplingRate, maxHistoryItems, maxIssues, maxErrors,
  live,              \* history: handles returned since cb was last removed
  calls,             \* history: invocations of each app callback per observable
  changed,           \* history: changing writes seen while registered
  everThrew,         \* history: computeds whose compute function has thrown
  silenced,          \* history: observables changed by silentSet
  disposed,          \* history: computeds on which dispose() was called
  last,              \* history: the last operation, what it was given, what
                     \* it returned, its trace
  steps              \* history: operations performed, per kind

vars == <<nextId, _observables, _components, timers, _value, _subscribers, _metrics, _computeMetrics,
          computeds, mode, handles, errors, performanceIssues, detailed,
          memoryUsage, totals,
          isDetailedMode, samplingRate, maxHistoryItems, maxIssues, maxErrors,
          live, calls, changed, everThrew, silenced, disposed, last, steps>>

config == <<isDetailedMode, samplingRate, maxHistoryItems, maxIssues, maxErrors>>
\* What only the periodic collection changes.
collected == <<memoryUsage, totals>>

(***************************************************************************)
(* The mutable program state, as one record, for the operators below.      *)
(* draw is the outcome of Math.random() (in tenths) for the recordMetric   *)
(* calls of the running operation.                                         *)
(***************************************************************************)
State(d) ==
  [value |-> _value, subscribers |-> _subscribers, metrics |-> _metrics,
   cm |-> _computeMetrics, comp |-> computeds, mode |-> mode,
   errors |-> errors, issues |-> performanceIssues, detailed |-> detailed,
   calls |-> calls, changed |-> changed, everThrew |-> everThrew,
   trace |-> <<>>, draw |-> d, samplingRate |-> samplingRate,
   isDetailedMode |-> isDetailedMode]

Ok(s) == [s |-> s, ex |-> "none"]
Throw(s, e) == [s |-> s, ex |-> e]

\* Mutant of Trim: the oldest max entries are kept.
TrimNewest(seq, max) ==
  IF JsGt(Num(Len(seq)), max) THEN SubSeq(seq, 1, max.n) ELSE seq

\* Array.prototype.slice(-max) of a sequence longer than max.
Trim(seq, max) ==
  IF JsGt(Num(Len(seq)), max) THEN SubSeq(seq, Len(seq) - max.n + 1, Len(seq))
  ELSE seq

\* ObservabilitySystem.recordMetric(name, value)
RecordMetric(s, name, v) ==
  IF JsGt(Num(s.draw), s.samplingRate) THEN s
  ELSE [s EXCEPT !.detailed[name] = Trim(Append(@, v), maxHistoryItems)]

\* ObservabilitySystem.recordError(type, error): reading error.message of a
\* null or undefined error throws a TypeError before anything is pushed.
RecordError(s, type, e) ==
  IF e = "null" THEN Throw(s, "Error")
  ELSE Ok([s EXCEPT !.errors = Trim(Append(@, [type |-> type]), maxErrors)])

\* ObservabilitySystem.reportPerformanceIssue(issue)
ReportPerformanceIssue(s, type) ==
  [s EXCEPT !.issues = Trim(Append(@, [type |-> type]), maxIssues)]

\* Mutant of Reading: a read that is not sampled is not counted.
ReadingSampled(s, o) ==
  IF JsGt(Num(s.draw), s.samplingRate) THEN s
  ELSE [s EXCEPT !.metrics[o].reads = @ + 1]

\* Observable: get value(), up to the return
Reading(s, o) ==
  [s EXCEPT !.metrics[o].reads = @ + 1,
            !.metrics[o].history = IF s.isDetailedMode THEN Append(@, "read") ELSE @]

\* Observable: get value()
Get(s, o) == [s |-> RecordMetric(Reading(s, o), "readTime", FastTime), v |-> s.value[o]]

ValidDeps(ds) == SelectSeq(ds, LAMBDA d : d # 0)

\* The application's compute function () => a.value + b.value over the valid
\* entries ds of its dependency list, read in order through the getter; acc
\* is the sum so far.
RECURSIVE SumOf(_, _, _)
Added(r, ds, acc) == SumOf(r.s, Tail(ds), JsAdd(acc, r.v))
SumOf(s, ds, acc) ==
  IF ds = <<>> THEN [s |-> s, v |-> acc, ex |-> "none"]
  ELSE Added(Get(s, Head(ds)), ds, acc)

First(r, ds) == SumOf(r.s, Tail(ds), r.v)

ComputeFn(s, c) ==
  IF s.mode[c] = "throws" THEN [s |-> s, v |-> Undefined, ex |-> "Error"]
  ELSE IF s.mode[c] = "thrownull" THEN [s |-> s, v |-> Undefined, ex |-> "null"]
  ELSE First(Get(s, Head(ValidDeps(s.comp[c].deps))), ValidDeps(s.comp[c].deps))

\* Elapsed time of a computation, as the environment decides it.
ComputeTime(s, c) == IF s.mode[c] = "slow" THEN SlowTime ELSE FastTime

RECURSIVE SetValue(_, _, _), NotifyAll(_, _, _, _), PerformComputation(_, _)

\* computed.js: the catch block of performComputation; e is what was thrown
Rethrow(r, e) == IF r.ex # "none" THEN r ELSE Throw(r.s, e)
ComputeFailed(s, c, e) ==
  Rethrow(RecordError([s EXCEPT !.cm[c].errors = @ + 1], "computeError", e), e)

\* computed.js: performComputation after result.value = newValue returned
\* with the metrics recorded; s has the time sample, v is the new value
SlowCheck(s, c, v) ==
  IF ComputeTime(s, c) > SlowThreshold
  THEN IF v = Undefined
       \* JSON.stringify(undefined).substring throws a TypeError
       THEN ComputeFailed(s, c, "Error")
       ELSE Ok(ReportPerformanceIssue(s, "slowComputation"))
  ELSE Ok(s)

\* computed.js: performComputation after result.value = newValue; w is the
\* outcome of the setter
Computed2(w, c, v) ==
  IF w.ex # "none" THEN ComputeFailed(w.s, c, w.ex)
  ELSE SlowCheck(RecordMetric(w.s, "derivedComputeTime", ComputeTime(w.s, c)), c, v)

\* Mutant of Computed1: the result is not written into the observable.
Computed1NoWrite(f, c) ==
  IF f.ex # "none"
  THEN ComputeFailed([f.s EXCEPT !.everThrew = @ \cup {c}], c, f.ex)
  ELSE Computed2(Ok(f.s), c, f.v)

\* computed.js: performComputation after computeFn(); f is its outcome
Computed1(f, c) ==
  IF f.ex # "none"
  THEN ComputeFailed([f.s EXCEPT !.everThrew = @ \cup {c}], c, f.ex)
  ELSE Computed2(SetValue(f.s, c, f.v), c, f.v)

\* computed.js: performComputation
PerformComputation(s, c) ==
  Computed1(ComputeFn([s EXCEPT !.cm[c].totalComputations = @ + 1], c), c)

\* computed.js: the catch block of the dependency subscription
Swallow(r) == Ok(r.s)

\* Mutant of Call: a write made by a subscriber is put off, not run.
CallQueued(s, cb, v) ==
  CASE cb.k = "log" -> Ok(s)
    [] cb.k = "throw" -> Throw(s, "Error")
    [] cb.k = "thrownull" -> Throw(s, "null")
    [] cb.k = "comp" -> Swallow(PerformComputation(s, cb.n))
    [] cb.k = "write" -> Ok(s)
    [] cb.k = "fwd" -> Ok(s)

\* Mutant of Call: a forwarding subscriber writes the value its target held
\* when the application's write began, and so leaves the target as it is.
CallStale(s, cb, v) ==
  CASE cb.k = "log" -> Ok(s)
    [] cb.k = "throw" -> Throw(s, "Error")
    [] cb.k = "thrownull" -> Throw(s, "null")
    [] cb.k = "comp" -> Swallow(PerformComputation(s, cb.n))
    [] cb.k = "write" -> SetValue(s, cb.n, Obj(cb.i))
    [] cb.k = "fwd" -> SetValue(s, cb.n, _value[cb.n])

\* The body of a subscriber callback, called with v.
Call(s, cb, v) ==
  CASE cb.k = "log" -> Ok(s)
    [] cb.k = "throw" -> Throw(s, "Error")
    [] cb.k = "thrownull" -> Throw(s, "null")
    [] cb.k = "comp" -> Swallow(PerformComputation(s, cb.n))
    [] cb.k = "write" -> SetValue(s, cb.n, Obj(cb.i))
    [] cb.k = "fwd" -> SetValue(s, cb.n, v)

\* History: cb is about to be called with v by a notification of o.
Traced(s, o, cb, v) ==
  [s EXCEPT !.trace = Append(@, [o |-> o, cb |-> cb, v |-> v]),
            !.calls[o] = [c \in AllCallbacks |-> IF c = cb THEN @[c] + 1 ELSE @[c]]]

\* observable.js: the catch block around a subscriber call
Caught(r) ==
  IF r.ex = "none" THEN r ELSE RecordError(r.s, "subscriberError", r.ex)

\* observable.js: one iteration of _subscribers.forEach, with its try/catch
Invoke(s, o, cb, v) == Caught(Call(Traced(s, o, cb, v), cb, v))

\* Mutant of NotifyAll: the callbacks are visited last registered first.
RECURSIVE NotifyReversed(_, _, _, _)
NotifyReversedRest(r, o, cbs, v) ==
  IF r.ex # "none" THEN r ELSE NotifyReversed(r.s, o, cbs, v)
NotifyReversed(s, o, cbs, v) ==
  IF cbs = <<>> THEN Ok(s)
  ELSE NotifyReversedRest(Invoke(s, o, cbs[Len(cbs)], v), o,
                          SubSeq(cbs, 1, Len(cbs) - 1), v)

\* observable.js: _subscribers.forEach over the callbacks cbs still to visit
\* (no callback of the model changes a subscriber set while it is iterated)
NotifyRest(r, o, cbs, v) ==
  IF r.ex # "none" THEN r ELSE NotifyAll(r.s, o, cbs, v)
NotifyAll(s, o, cbs, v) ==
  IF cbs = <<>> THEN Ok(s)
  ELSE NotifyRest(Invoke(s, o, Head(cbs), v), o, Tail(cbs), v)

InSeq(x, seq) == \E j \in 1..Len(seq) : seq[j] = x

\* Mutant of Writing: a write is counted only when it changes the value.
WritingIfChanged(s, o, newValue) ==
  [s EXCEPT
     !.metrics[o].writes = IF s.value[o] # newValue THEN @ + 1 ELSE @,
     !.changed[o] = [c \in AllCallbacks |->
        IF s.value[o] # newValue /\ InSeq(c, s.subscribers[o])
        THEN @[c] + 1 ELSE @[c]]]

\* Observable: set value(newValue), up to the comparison
Writing(s, o, newValue) ==
  [s EXCEPT
     !.metrics[o].writes = @ + 1,
     !.metrics[o].history = IF s.isDetailedMode THEN Append(@, "write") ELSE @,
     !.changed[o] = [c \in AllCallbacks |->
        IF s.value[o] # newValue /\ InSeq(c, s.subscribers[o])
        THEN @[c] + 1 ELSE @[c]]]

\* Observable: set value(newValue), after the forEach returned or threw
Notified(r, o) ==
  IF r.ex # "none" THEN r
  ELSE Ok(RecordMetric(
            RecordMetric(
              RecordMetric(r.s, "updateTime", FastTime),
              "subscriberCount", Len(r.s.subscribers[o])),
            "writeTime", FastTime))

\* Observable: set value(newValue)
SetValue(s, o, newValue) ==
  IF ~ObjectIs(s.value[o], newValue)
  THEN Notified(NotifyAll([Writing(s, o, newValue) EXCEPT !.value[o] = newValue],
                          o, s.subscribers[o], newValue), o)
  ELSE Ok(RecordMetric(Writing(s, o, newValue), "writeTime", FastTime))

\* Mutant of SubscribeOp: the subscribers are kept in a list, not in a Set.
SubscribeAppend(s, o, cb) ==
  [s EXCEPT !.metrics[o].subscriptions = @ + 1,
            !.subscribers[o] = Append(@, cb)]

\* Observable.subscribe(callback), callback a function
SubscribeOp(s, o, cb) ==
  [s EXCEPT !.metrics[o].subscriptions = @ + 1,
            !.subscribers[o] = IF InSeq(cb, @) THEN @ ELSE Append(@, cb)]

\* Mutant of SubscribeCall: the argument is checked after the counter.
SubscribeCallLate(s, o, cb) ==
  IF ~IsFunction(cb) THEN Throw([s EXCEPT !.metrics[o].subscriptions = @ + 1], "Error")
  ELSE Ok(SubscribeOp(s, o, cb))

\* Observable.subscribe(callback), with its argument check
SubscribeCall(s, o, cb) ==
  IF ~IsFunction(cb) THEN Throw(s, "Error") ELSE Ok(SubscribeOp(s, o, cb))

\* Mutant of UnsubscribeOp: the counter is decremented, the callback stays.
UnsubscribeCountOnly(s, o, cb) == [s EXCEPT !.metrics[o].subscriptions = @ - 1]

\* The function subscribe returned for (o, cb)
UnsubscribeOp(s, o, cb) ==
  [s EXCEPT !.subscribers[o] = SelectSeq(@, LAMBDA c : c # cb),
            !.metrics[o].subscriptions = @ - 1]

(***************************************************************************)
(* Initial state: the module has been loaded, nothing has been created.    *)
(***************************************************************************)
NoCallback == [k |-> "none", n |-> 0, i |-> 0]
\* resetMetrics: the global counters of a new metrics block
NoTotals == [totalReads |-> 0, totalWrites |-> 0, totalRenders |-> 0,
             slowRenders |-> 0]
NoComputed == [isComputed |-> FALSE, deps |-> <<>>, lazy |-> FALSE,
               unsubscribers |-> <<>>]

\* The options object of a configure call: a key that is absent reads as
\* undefined; verbose is a key that configure does not know.
NoOptions ==
  [isDetailedMode |-> Undefined, samplingRate |-> Undefined,
   maxHistoryItems |-> Undefined, maxIssues |-> Undefined, maxErrors |-> Undefined,
   verbose |-> Undefined]

\* History: the operation op(o, cb, v), before its outcome is known; options
\* is what a configure call was given, ret what a query returned.
Op(op, o, cb, v) ==
  [op |-> op, o |-> o, cb |-> cb, v |-> v, ex |-> "none", trace |-> <<>>,
   options |-> NoOptions, ret |-> Undefined]
\* steps.again counts the configure calls given the options of the call
\* right before them.

Init ==
  /\ nextId = 1
  /\ _observables = {}
  /\ _components = <<>>
  /\ timers = <<>>
  /\ _value = [o \in Ids |-> Undefined]
  /\ _subscribers = [o \in Ids |-> <<>>]
  /\ _metrics = [o \in Ids |-> [reads |-> 0, writes |-> 0, subscriptions |-> 0,
                               history |-> <<>>]]
  /\ _computeMetrics = [o \in Ids |-> [totalComputations |-> 0, errors |-> 0]]
  /\ computeds = [o \in Ids |-> NoComputed]
  /\ mode = [o \in Ids |-> "ok"]
  /\ handles = {}
  /\ errors = <<>>
  /\ performanceIssues = <<>>
  /\ detailed = [m \in MetricNames |-> <<>>]
  /\ isDetailedMode = FALSE
  /\ samplingRate = Num(DefaultSamplingRate)
  /\ maxHistoryItems = Num(DefaultMaxHistoryItems)
  /\ maxIssues = Num(DefaultMaxIssues)
  /\ maxErrors = Num(DefaultMaxErrors)
  /\ memoryUsage = <<>>
  /\ totals = NoTotals
  /\ live = {}
  /\ calls = [o \in Ids |-> [c \in AllCallbacks |-> 0]]
  /\ changed = [o \in Ids |-> [c \in AllCallbacks |-> 0]]
  /\ everThrew = {}
  /\ silenced = {}
  /\ disposed = {}
  /\ last = Op("init", 0, NoCallback, Undefined)
  /\ steps = [write |-> 0, sub |-> 0, misc |-> 0, dispose |-> 0, conf |-> 0,
              metric |-> 0, err |-> 0, issue |-> 0, tick |-> 0, render |-> 0,
              timer |-> 0, reset |-> 0, query |-> 0, again |-> 0]

\* The program state after the operation l left it as r.s, having returned
\* (r.ex = "none") or thrown r.ex to the application.
Logged(r, l) ==
  /\ _value' = r.s.value
  /\ _subscribers' = r.s.subscribers
  /\ _metrics' = r.s.metrics
  /\ _computeMetrics' = r.s.cm
  /\ computeds' = r.s.comp
  /\ mode' = r.s.mode
  /\ errors' = r.s.errors
  /\ performanceIssues' = r.s.issues
  /\ detailed' = r.s.detailed
  /\ calls' = r.s.calls
  /\ changed' = r.s.changed
  /\ everThrew' = r.s.everThrew
  /\ last' = [l EXCEPT !.ex = r.ex, !.trace = r.s.trace]

Commit(r, op, o, cb, v) == Logged(r, Op(op, o, cb, v))

Draws == {0, 5}    \* Math.random() returned 0 or 0.5

Plain == {o \in _observables : ~computeds[o].isComputed}
Computeds == {o \in _observables : computeds[o].isComputed}

\* new Observable(initialValue): the constructor registers the observable
Construct(s, o, v) == [s EXCEPT !.value[o] = v]

\* new Observable(initialValue), through createObservable
CreateObservable(v) ==
  /\ Commit(Ok(Construct(State(0), nextId, v)), "create", nextId, NoCallback, v)
  /\ nextId' = nextId + 1
  /\ _observables' = _observables \cup {nextId}
  /\ UNCHANGED <<_components, timers, handles, live, config, collected, silenced, disposed, steps>>

\* Mutant of SubscribeDeps: the map stops at an invalid dependency.
RECURSIVE SubscribeDepsUntilInvalid(_, _, _, _)
SubscribeDepsUntilInvalid(s, c, ds, j) ==
  IF j > Len(ds) \/ ds[j] = 0 THEN s
  ELSE SubscribeDepsUntilInvalid(SubscribeOp(s, ds[j], Trigger(c, j)), c, ds, j + 1)

\* Mutant of SubscribeDeps: only the first dependency is subscribed to.
SubscribeFirstDep(s, c, ds, j) ==
  IF j > Len(ds) \/ ds[j] = 0 THEN s ELSE SubscribeOp(s, ds[j], Trigger(c, j))

\* deps.map(dep => dep.subscribe(...)) of computed(), from entry j on
RECURSIVE SubscribeDeps(_, _, _, _)
SubscribeDeps(s, c, ds, j) ==
  IF j > Len(ds) THEN s
  ELSE IF ds[j] = 0 THEN SubscribeDeps(s, c, ds, j + 1)
  ELSE SubscribeDeps(SubscribeOp(s, ds[j], Trigger(c, j)), c, ds, j + 1)

\* computed(): the closure state of a new computed c over ds
Declared(s, c, ds, lazy, m) ==
  [s EXCEPT
     !.value[c] = Undefined,
     !.comp[c] = [isComputed |-> TRUE, deps |-> ds, lazy |-> lazy,
                  unsubscribers |->
                    [j \in 1..Len(ds) |-> [o |-> ds[j], cb |-> Trigger(c, j)]]],
     !.mode[c] = m]

\* Mutant of Initial: a failure of the initial computation is not caught.
InitialNoCatch(r, c) ==
  IF r.ex = "none"
  THEN Ok(RecordMetric(r.s, "initialComputeTime", ComputeTime(r.s, c)))
  ELSE r

\* computed(): the try/catch around the initial computation; r its outcome
Initial(r, c) ==
  IF r.ex = "none"
  THEN Ok(RecordMetric(r.s, "initialComputeTime", ComputeTime(r.s, c)))
  ELSE Ok(r.s)

\* computed(): the subscriptions, unless the construction has thrown
Subscribed(r, c, ds) ==
  IF r.ex # "none" THEN r ELSE Ok(SubscribeDeps(r.s, c, ds, 1))

\* Mutant of Computed: the lazy option is ignored.
ComputedEager(s, c, ds, lazy, m) ==
  Subscribed(Initial(PerformComputation(Declared(s, c, ds, lazy, m), c), c), c, ds)

\* computed(computeFn, deps, {lazy}), computeFn behaving as m
Computed(s, c, ds, lazy, m) ==
  IF lazy THEN Subscribed(Ok(Declared(s, c, ds, lazy, m)), c, ds)
  ELSE Subscribed(Initial(PerformComputation(Declared(s, c, ds, lazy, m), c), c),
                  c, ds)

\* Dependency lists: two distinct registered observables.
DepLists ==
  {<<p[1], p[2]>> : p \in {q \in _observables \X _observables : q[1] < q[2]}}

\* Mutant of ComputedCall: the arguments are checked after the dependencies
\* have been subscribed.
ComputedCallLate(s, c, isFn, isArray, ds, lazy, m) ==
  IF ~isFn \/ ~isArray
  THEN Throw(SubscribeDeps(Declared(s, c, ds, TRUE, m), c, ds, 1), "Error")
  ELSE Computed(s, c, ds, lazy, m)

\* computed(computeFn, deps, {lazy}) with its argument checks: isFn, typeof
\* computeFn is 'function'; isArray, Array.isArray(deps)
ComputedCall(s, c, isFn, isArray, ds, lazy, m) ==
  IF ~isFn \/ ~isArray THEN Throw(s, "Error") ELSE Computed(s, c, ds, lazy, m)

\* computed(computeFn, deps, {lazy}), called by the application; new
\* Observable(undefined) registers the result once the checks have passed.
\* History: a computeFn that is not a function is recorded as cb, a deps
\* that is not an array as v.
CreateComputedOf(isFn, isArray, ds, lazy, m) ==
  /\ \E d \in Draws :
       Commit(ComputedCall(State(d), nextId, isFn, isArray, ds, lazy, m),
              "computed", IF isFn /\ isArray THEN nextId ELSE 0,
              IF isFn THEN NoCallback ELSE NotAFunction(0),
              IF isArray THEN Undefined ELSE Obj(0))
  /\ nextId' = IF isFn /\ isArray THEN nextId + 1 ELSE nextId
  /\ _observables' = IF isFn /\ isArray THEN _observables \cup {nextId}
                     ELSE _observables
  /\ UNCHANGED <<_components, timers, handles, live, config, collected, silenced, disposed, steps>>

\* computed(computeFn, deps, {lazy}) with a function and an array
CreateComputed(ds, lazy, m) == CreateComputedOf(TRUE, TRUE, ds, lazy, m)

\* observable.value = v, by the application
Write(o, v) ==
  /\ \E d \in Draws : Commit(SetValue(State(d), o, v), "write", o, NoCallback, v)
  /\ steps' = [steps EXCEPT !.write = @ + 1]
  /\ UNCHANGED <<_components, timers, nextId, _observables, handles, live, config, collected, silenced, disposed>>

\* Mutant of SilentSet: silentSet goes through the setter.
SilentSetNotifying(o, v) ==
  /\ Commit(SetValue(State(0), o, v), "silentSet", o, NoCallback, v)
  /\ silenced' = silenced \cup {o}
  /\ steps' = [steps EXCEPT !.write = @ + 1]
  /\ UNCHANGED <<_components, timers, nextId, _observables, handles, live, config, collected, disposed>>

\* observable.silentSet(v)
SilentSet(o, v) ==
  /\ Commit(Ok([State(0) EXCEPT !.value[o] = v]), "silentSet", o, NoCallback, v)
  /\ silenced' = silenced \cup {o}
  /\ steps' = [steps EXCEPT !.write = @ + 1]
  /\ UNCHANGED <<_components, timers, nextId, _observables, handles, live, config, collected, disposed>>

\* observable.value, read by the application
Read(o) ==
  /\ \E d \in Draws : Commit(Ok(Get(State(d), o).s), "read", o, NoCallback, _value[o])
  /\ steps' = [steps EXCEPT !.misc = @ + 1]
  /\ UNCHANGED <<_components, timers, nextId, _observables, handles, live, config, collected, silenced, disposed>>

\* History of a registration: the counts of (o, cb) start again.
Fresh(s, o, cb) == [s EXCEPT !.calls[o][cb] = 0, !.changed[o][cb] = 0]

\* observable.subscribe(cb); the application keeps the function returned
Subscribe(o, cb) ==
  /\ Commit(SubscribeCall(IF InSeq(cb, _subscribers[o]) THEN State(0)
                          ELSE Fresh(State(0), o, cb), o, cb),
            "subscribe", o, cb, Num(steps.sub + 1))
  /\ handles' = IF IsFunction(cb)
                THEN handles \cup {[o |-> o, cb |-> cb, g |-> steps.sub + 1]}
                ELSE handles
  /\ live' = IF IsFunction(cb)
             THEN live \cup {[o |-> o, cb |-> cb, g |-> steps.sub + 1]}
             ELSE live
  /\ steps' = [steps EXCEPT !.sub = @ + 1]
  /\ UNCHANGED <<_components, timers, nextId, _observables, config, collected, silenced, disposed>>

\* A call of a function returned by subscribe
Unsubscribe(h) ==
  /\ Commit(Ok(UnsubscribeOp(Fresh(State(0), h.o, h.cb), h.o, h.cb)),
            "unsubscribe", h.o, h.cb, Num(h.g))
  /\ live' = {l \in live : l.o # h.o \/ l.cb # h.cb}
  /\ steps' = [steps EXCEPT !.misc = @ + 1]
  /\ UNCHANGED <<_components, timers, nextId, _observables, handles, config, collected, silenced, disposed>>

\* result.recompute(), called by the application
Recompute(c) ==
  /\ \E d \in Draws :
       Commit(PerformComputation(State(d), c), "recompute", c, NoCallback, Undefined)
  /\ steps' = [steps EXCEPT !.misc = @ + 1]
  /\ UNCHANGED <<_components, timers, nextId, _observables, handles, live, config, collected, silenced, disposed>>

\* unsubscribers.forEach(unsubscribe => unsubscribe()), from entry j on
RECURSIVE CallUnsubscribers(_, _, _)
CallUnsubscribers(s, us, j) ==
  IF j > Len(us) THEN s
  ELSE IF us[j].o = 0 THEN CallUnsubscribers(s, us, j + 1)
  ELSE CallUnsubscribers(UnsubscribeOp(s, us[j].o, us[j].cb), us, j + 1)

\* result.dispose()
Dispose(c) ==
  /\ Commit(Ok(CallUnsubscribers(State(0), computeds[c].unsubscribers, 1)),
            "dispose", c, NoCallback, Undefined)
  /\ disposed' = disposed \cup {c}
  /\ steps' = [steps EXCEPT !.dispose = @ + 1]
  /\ UNCHANGED <<_components, timers, nextId, _observables, handles, live, config, collected, silenced>>

\* The environment: the compute function of c starts to behave as m.
SetMode(c, m) ==
  /\ mode[c] # m
  /\ Commit(Ok([State(0) EXCEPT !.mode[c] = m]), "setMode", c, NoCallback, Undefined)
  /\ steps' = [steps EXCEPT !.misc = @ + 1]
  /\ UNCHANGED <<_components, timers, nextId, _observables, handles, live, config, collected, silenced, disposed>>

\* Mutant of Capped: a cap that is not given falls back to the floor.
CappedOrFloor(cap, option) ==
  IF IsNumber(option) THEN MathMax(Num(MinCap), option) ELSE Num(MinCap)

\* configure: a cap option, cap being the configured value
Capped(cap, option) ==
  IF IsNumber(option) THEN MathMax(Num(MinCap), option) ELSE cap

\* ObservabilitySystem.configure(options)
Configure(options) ==
  /\ isDetailedMode' = IF options.isDetailedMode # Undefined
                        THEN Truthy(options.isDetailedMode) ELSE isDetailedMode
  /\ samplingRate' = IF IsNumber(options.samplingRate)
                      THEN MathMax(Num(0), MathMin(Num(FullRate), options.samplingRate))
                      ELSE samplingRate
  /\ maxHistoryItems' = Capped(maxHistoryItems, options.maxHistoryItems)
  /\ maxIssues' = Capped(maxIssues, options.maxIssues)
  /\ maxErrors' = Capped(maxErrors, options.maxErrors)
  /\ Logged(Ok(State(0)),
            [Op("configure", 0, NoCallback, Undefined) EXCEPT !.options = options])
  /\ steps' = [steps EXCEPT
                 !.conf = @ + 1,
                 !.again = IF last.op = "configure" /\ last.options = options
                           THEN @ + 1 ELSE @]
  /\ UNCHANGED <<_components, timers, nextId, _observables, handles, live, collected, silenced, disposed>>

\* ObservabilitySystem.recordMetric(name, v), called by the application
RecordMetricCall(name, v) ==
  /\ \E d \in Draws :
       Commit(Ok(RecordMetric(State(d), name, v)), "recordMetric", 0, NoCallback,
              Num(v))
  /\ steps' = [steps EXCEPT !.metric = @ + 1]
  /\ UNCHANGED <<_components, timers, nextId, _observables, handles, live, config, collected, silenced, disposed>>

\* ObservabilitySystem.recordError(type, new Error(...)), called by the
\* application
RecordErrorCall(type) ==
  /\ Commit(RecordError(State(0), type, "Error"), "recordError", 0, NoCallback,
            Undefined)
  /\ steps' = [steps EXCEPT !.err = @ + 1]
  /\ UNCHANGED <<_components, timers, nextId, _observables, handles, live, config, collected, silenced, disposed>>

\* ObservabilitySystem.reportPerformanceIssue({type}), called by the
\* application
ReportIssueCall(type) ==
  /\ Commit(Ok(ReportPerformanceIssue(State(0), type)), "reportPerformanceIssue",
            0, NoCallback, Undefined)
  /\ steps' = [steps EXCEPT !.issue = @ + 1]
  /\ UNCHANGED <<_components, timers, nextId, _observables, handles, live, config, collected, silenced, disposed>>

\* new Component(props) of a class whose getMetrics behaves as m: "ok" is
\* the method of the base class.
NewComponent(m) ==
  [renders |-> 0, renderTime |-> 0, lastRenderTime |-> 0, getMetrics |-> m]

\* Map.prototype.set(k, x)
MapSet(map, k, x) == [i \in DOMAIN map \cup {k} |-> IF i = k THEN x ELSE map[i]]

\* new Component(props): the constructor registers the component
CreateComponent(m) ==
  /\ _components' = MapSet(_components, nextId, NewComponent(m))
  /\ nextId' = nextId + 1
  /\ Commit(Ok(State(0)), "component", nextId, NoCallback, Undefined)
  /\ UNCHANGED <<_observables, timers, handles, live, config, collected,
                 silenced, disposed, steps>>

\* Component.render: the report of a render that took t
SlowRender(s, t) ==
  IF t > FrameBudget THEN ReportPerformanceIssue(s, "slowRender") ELSE s

\* Component.render(), n times from one task of the application, up to the
\* return of each; every render takes t
RECURSIVE Renders(_, _, _)
Renders(s, n, t) ==
  IF n = 0 THEN s
  ELSE Renders(SlowRender(RecordMetric(s, "componentRenderTime", t), t), n - 1, t)

RenderMany(c, n, t) ==
  /\ _components' = [_components EXCEPT ![c].renders = @ + n,
                                        ![c].renderTime = @ + n * t,
                                        ![c].lastRenderTime = t]
  /\ totals' = IF t > FrameBudget THEN [totals EXCEPT !.slowRenders = @ + n]
               ELSE totals
  /\ \E d \in Draws :
       Commit(Ok(Renders(State(d), n, t)), "render", c, NoCallback, Num(t))
  /\ steps' = [steps EXCEPT !.render = @ + n]
  /\ UNCHANGED <<nextId, _observables, timers, handles, live, config,
                 memoryUsage, silenced, disposed>>

\* Component.render(), the render taking t
Render(c, t) == RenderMany(c, 1, t)

\* for (k = 1; k <= n; k++) observable.value = v + k, in one task of the
\* application; r is the outcome so far
RECURSIVE SetMany(_, _, _, _)
SetMany(r, o, n, v) ==
  IF n = 0 \/ r.ex # "none" THEN r
  ELSE SetMany(SetValue(r.s, o, Num(v + 1)), o, n - 1, v + 1)

\* The application writes a running number: the writes counter of the
\* observable plus one.
WriteMany(o, n) ==
  /\ \E d \in Draws :
       Commit(SetMany(Ok(State(d)), o, n, _metrics[o].writes),
              "writeMany", o, NoCallback, Num(_metrics[o].writes + n))
  /\ steps' = [steps EXCEPT !.write = @ + n]
  /\ UNCHANGED <<_components, timers, nextId, _observables, handles, live, config,
                 collected, silenced, disposed>>

\* updateGlobalCounters: _observables.forEach from id o on, with the sums r
\* and w so far; getMetrics of an observable holding undefined throws a
\* TypeError (JSON.stringify(undefined).substring), which is recorded.
RECURSIVE Summed(_, _, _, _)
Summed(s, o, r, w) ==
  IF o >= nextId THEN [s |-> s, totalReads |-> r, totalWrites |-> w]
  ELSE IF o \notin _observables THEN Summed(s, o + 1, r, w)
  ELSE IF s.value[o] = Undefined
  THEN Summed(RecordError(s, "metricsError", "Error").s, o + 1, r, w)
  ELSE Summed(s, o + 1, r + s.metrics[o].reads, w + s.metrics[o].writes)

\* What getMetrics of a component that does not return throws.
Thrown(m) == IF m = "thrownull" THEN "null" ELSE "Error"

\* updateGlobalCounters: _components.forEach from id c on, with the sum n so
\* far; e is the outcome of the catch block of the entry before
RECURSIVE SumRenders(_, _, _)
RendersCaught(e, c, n) ==
  IF e.ex # "none" THEN [s |-> e.s, ex |-> e.ex, totalRenders |-> n]
  ELSE SumRenders(e.s, c, n)
SumRenders(s, c, n) ==
  IF c >= nextId THEN [s |-> s, ex |-> "none", totalRenders |-> n]
  ELSE IF c \notin DOMAIN _components THEN SumRenders(s, c + 1, n)
  ELSE IF _components[c].getMetrics = "ok"
  THEN SumRenders(s, c + 1, n + _components[c].renders)
  ELSE RendersCaught(RecordError(s, "metricsError",
                                 Thrown(_components[c].getMetrics)), c + 1, n)

\* updateGlobalCounters: the sums u over the observables and v over the
\* components
Sums(u, v) ==
  [s |-> v.s, ex |-> v.ex, totalReads |-> u.totalReads,
   totalWrites |-> u.totalWrites, totalRenders |-> v.totalRenders]
WithRenders(u) == Sums(u, SumRenders(u.s, 1, 0))

\* updateGlobalCounters, up to the three assignments
UpdateGlobalCounters(s) == WithRenders(Summed(s, 1, 0, 0))

\* Mutant of Counters: the sums are added to the counters.
CountersAdding(u) ==
  IF u.ex # "none" THEN totals
  ELSE [totals EXCEPT !.totalReads = @ + u.totalReads,
                      !.totalWrites = @ + u.totalWrites,
                      !.totalRenders = @ + u.totalRenders]

\* updateGlobalCounters: the three assignments, not reached when the forEach
\* has thrown
Counters(u) ==
  IF u.ex # "none" THEN totals
  ELSE [totals EXCEPT !.totalReads = u.totalReads, !.totalWrites = u.totalWrites,
                      !.totalRenders = u.totalRenders]

\* updateGlobalCounters as the last call of the operation l, u its outcome
Counted(u, l) ==
  /\ totals' = Counters(u)
  /\ Logged([s |-> u.s, ex |-> u.ex], l)

\* startPeriodicCollection(interval); window: the environment has a global
\* window.  The function returned is the handle of the new timer.
Handle(t) == [t |-> "function", n |-> t, s |-> <<>>]
StartPeriodicCollection(window) ==
  /\ timers' = IF window THEN Append(timers, TRUE) ELSE timers
  /\ Logged(Ok(State(0)),
            [Op("startPeriodicCollection", 0, NoCallback, Undefined)
               EXCEPT !.ret = IF window THEN Handle(Len(timers) + 1) ELSE Undefined])
  /\ steps' = [steps EXCEPT !.timer = @ + 1]
  /\ UNCHANGED <<nextId, _observables, _components, handles, live, config,
                 collected, silenced, disposed>>

\* A call of the function startPeriodicCollection returned for timer t:
\* clearInterval(timerId)
Cancel(t) ==
  /\ timers' = [timers EXCEPT ![t] = FALSE]
  /\ Commit(Ok(State(0)), "cancel", t, NoCallback, Undefined)
  /\ steps' = [steps EXCEPT !.timer = @ + 1]
  /\ UNCHANGED <<nextId, _observables, _components, handles, live, config,
                 collected, silenced, disposed>>

\* One run of the setInterval callback of timer t, in a browser; mem:
\* performance.memory exists, and reports sample as heap size.
Tick(t, mem, sample) ==
  /\ timers[t]
  /\ memoryUsage' = IF mem THEN Trim(Append(memoryUsage, sample), maxHistoryItems)
                     ELSE memoryUsage
  /\ Counted(UpdateGlobalCounters(State(0)), Op("tick", t, NoCallback, Undefined))
  /\ steps' = [steps EXCEPT !.tick = @ + 1]
  /\ UNCHANGED <<_components, timers, nextId, _observables, handles, live, config,
                 silenced, disposed>>

\* updateGlobalCounters(), called by the application
UpdateGlobalCountersCall ==
  /\ Counted(UpdateGlobalCounters(State(0)),
             Op("updateGlobalCounters", 0, NoCallback, Undefined))
  /\ steps' = [steps EXCEPT !.query = @ + 1]
  /\ UNCHANGED <<nextId, _observables, _components, timers, handles, live,
                 config, memoryUsage, silenced, disposed>>

\* Mutant of ResetMetrics: the registry is emptied with the metrics.
ResetMetricsClearing ==
  /\ totals' = NoTotals
  /\ memoryUsage' = <<>>
  /\ _observables' = {}
  /\ _components' = <<>>
  /\ Commit(Ok([State(0) EXCEPT !.errors = <<>>, !.issues = <<>>,
                                !.detailed = [m \in MetricNames |-> <<>>]]),
            "resetMetrics", 0, NoCallback, Undefined)
  /\ steps' = [steps EXCEPT !.reset = @ + 1]
  /\ UNCHANGED <<nextId, timers, handles, live, config, silenced, disposed>>

\* Mutant of ResetMetrics: the id generator starts again.
ResetMetricsRestarting ==
  /\ totals' = NoTotals
  /\ memoryUsage' = <<>>
  /\ nextId' = 1
  /\ Commit(Ok([State(0) EXCEPT !.errors = <<>>, !.issues = <<>>,
                                !.detailed = [m \in MetricNames |-> <<>>]]),
            "resetMetrics", 0, NoCallback, Undefined)
  /\ steps' = [steps EXCEPT !.reset = @ + 1]
  /\ UNCHANGED <<_observables, _components, timers, handles, live, config,
                 silenced, disposed>>

\* resetMetrics()
ResetMetrics ==
  /\ totals' = NoTotals
  /\ memoryUsage' = <<>>
  /\ Commit(Ok([State(0) EXCEPT !.errors = <<>>, !.issues = <<>>,
                                !.detailed = [m \in MetricNames |-> <<>>]]),
            "resetMetrics", 0, NoCallback, Undefined)
  /\ steps' = [steps EXCEPT !.reset = @ + 1]
  /\ UNCHANGED <<nextId, _observables, _components, timers, handles, live,
                 config, silenced, disposed>>

\* getMetrics: the object returned after updateGlobalCounters left u
MetricsOf(u, includeDetailed) ==
  [global |-> [totalReads |-> u.totalReads, totalWrites |-> u.totalWrites,
               totalRenders |-> u.totalRenders, slowRenders |-> totals.slowRenders,
               memoryUsage |-> memoryUsage, performanceIssues |-> u.s.issues,
               errors |-> u.s.errors],
   detailed |-> IF includeDetailed \/ isDetailedMode THEN u.s.detailed ELSE Null]

\* The operation l returning ret, unless it has thrown.
Returning(l, ex, ret) == IF ex = "none" THEN [l EXCEPT !.ret = ret] ELSE l

GotMetrics(u, includeDetailed) ==
  Counted(u, Returning(Op("getMetrics", 0, NoCallback, Bool(includeDetailed)),
                       u.ex, MetricsOf(u, includeDetailed)))

\* getMetrics(includeDetailed)
GetMetrics(includeDetailed) ==
  /\ GotMetrics(UpdateGlobalCounters(State(0)), includeDetailed)
  /\ steps' = [steps EXCEPT !.query = @ + 1]
  /\ UNCHANGED <<nextId, _observables, _components, timers, handles, live,
                 config, memoryUsage, silenced, disposed>>

\* findHotspots: the entry of component c; averageRenderTime is the
\* fraction num / den
HotComponent(c) ==
  [id |-> c, renders |-> _components[c].renders,
   num |-> _components[c].renderTime, den |-> _components[c].renders,
   lastRenderTime |-> _components[c].lastRenderTime]

\* findHotspots: _components.forEach from id c on, hot the entries pushed so
\* far; e is the outcome of the catch block of the entry before
RECURSIVE HotComponents(_, _, _)
HotCaught(e, c, hot) ==
  IF e.ex # "none" THEN [s |-> e.s, ex |-> e.ex, hot |-> hot]
  ELSE HotComponents(e.s, c, hot)
HotComponents(s, c, hot) ==
  IF c >= nextId THEN [s |-> s, ex |-> "none", hot |-> hot]
  ELSE IF c \notin DOMAIN _components THEN HotComponents(s, c + 1, hot)
  ELSE IF _components[c].getMetrics # "ok"
  THEN HotCaught(RecordError(s, "hotspotAnalysisError",
                             Thrown(_components[c].getMetrics)), c + 1, hot)
  ELSE HotComponents(s, c + 1,
         IF _components[c].renders > HotRenders
            /\ _components[c].lastRenderTime > HotRenderTime
         THEN Append(hot, HotComponent(c)) ELSE hot)

\* findHotspots: _observables.forEach from id o on; getMetrics of an
\* observable holding undefined throws a TypeError, which is recorded
RECURSIVE HotObservables(_, _, _)
HotObservables(s, o, hot) ==
  IF o >= nextId THEN [s |-> s, ex |-> "none", hot |-> hot]
  ELSE IF o \notin _observables THEN HotObservables(s, o + 1, hot)
  ELSE IF s.value[o] = Undefined
  THEN HotObservables(RecordError(s, "hotspotAnalysisError", "Error").s, o + 1, hot)
  ELSE HotObservables(s, o + 1,
         IF s.metrics[o].writes > HotWrites
         THEN Append(hot, [id |-> o, writes |-> s.metrics[o].writes,
                           reads |-> s.metrics[o].reads,
                           subscribers |-> s.metrics[o].subscriptions])
         ELSE hot)

\* Array.prototype.sort(compare), which is stable: the place of the i-th
\* element in the result, after[i][j] saying that compare of the i-th and
\* the j-th element is above 0
Place(after, i) ==
  1 + Cardinality({j \in DOMAIN after : after[i][j] \/ (j < i /\ ~after[j][i])})
Sort(seq, after) ==
  [k \in 1..Len(seq) |-> seq[CHOOSE i \in 1..Len(seq) : Place(after, i) = k]]

\* (b.renders * b.averageRenderTime) - (a.renders * a.averageRenderTime) > 0
ComponentAfter(a, b) == b.renders * b.num * a.den > a.renders * a.num * b.den
\* b.writes - a.writes > 0
ObservableAfter(a, b) == b.writes > a.writes

\* The compare functions of findHotspots over the entries of seq
ComponentsAfter(seq) ==
  [i \in 1..Len(seq) |-> [j \in 1..Len(seq) |-> ComponentAfter(seq[i], seq[j])]]
ObservablesAfter(seq) ==
  [i \in 1..Len(seq) |-> [j \in 1..Len(seq) |-> ObservableAfter(seq[i], seq[j])]]

\* slice(0, 5)
Top(seq) == SubSeq(seq, 1, IF Len(seq) < TopCount THEN Len(seq) ELSE TopCount)

\* findHotspots: the object returned, hc and ho the outcomes of the loops
Hotspots(hc, ho) ==
  [s |-> ho.s, ex |-> "none",
   ret |-> [hotComponents |-> Top(Sort(hc.hot, ComponentsAfter(hc.hot))),
            hotObservables |-> Top(Sort(ho.hot, ObservablesAfter(ho.hot)))]]
ThenObservables(hc) ==
  IF hc.ex # "none" THEN [s |-> hc.s, ex |-> hc.ex, ret |-> Undefined]
  ELSE Hotspots(hc, HotObservables(hc.s, 1, <<>>))
FoundHotspots(h) ==
  Logged([s |-> h.s, ex |-> h.ex],
         Returning(Op("findHotspots", 0, NoCallback, Undefined), h.ex, h.ret))

\* findHotspots()
FindHotspots ==
  /\ FoundHotspots(ThenObservables(HotComponents(State(0), 1, <<>>)))
  /\ steps' = [steps EXCEPT !.query = @ + 1]
  /\ UNCHANGED <<nextId, _observables, _components, timers, handles, live,
                 config, collected, silenced, disposed>>

\* The text exportToPrometheus returns, as its lines, and a line as the
\* pieces a single space separates; a number is written as its digits.
Sample(name, n) == <<name>> \o Digits(n)
Stanza(name, help, n) ==
  <<<<"# HELP", name, help>>, <<"# TYPE", name, "counter">>, Sample(name, n)>>
Blank == <<<<>>>>

\* exportToPrometheus: the template, trimmed, over the global metrics g
Exposition(g) ==
  Stanza("js_total_reads", "Total number of observable reads", g.totalReads)
  \o Blank
  \o Stanza("js_total_writes", "Total number of observable writes", g.totalWrites)
  \o Blank
  \o Stanza("js_total_renders", "Total number of component renders", g.totalRenders)
  \o Blank
  \o Stanza("js_slow_renders", "Total number of slow component renders", g.slowRenders)
  \o Blank
  \o Stanza("js_performance_issues", "Total number of performance issues",
            Len(g.performanceIssues))
  \o Blank
  \o Stanza("js_errors", "Total number of errors", Len(g.errors))

Exported(u) ==
  Counted(u, Returning(Op("exportToPrometheus", 0, NoCallback, Undefined),
                       u.ex, Exposition(MetricsOf(u, FALSE).global)))

\* Mutant of ExportToPrometheus: the counters are exported as they are.
ExportStale ==
  /\ Exported([s |-> State(0), ex |-> "none", totalReads |-> totals.totalReads,
               totalWrites |-> totals.totalWrites,
               totalRenders |-> totals.totalRenders])
  /\ steps' = [steps EXCEPT !.query = @ + 1]
  /\ UNCHANGED <<nextId, _observables, _components, timers, handles, live,
                 config, memoryUsage, silenced, disposed>>

\* exportToPrometheus()
ExportToPrometheus ==
  /\ Exported(UpdateGlobalCounters(State(0)))
  /\ steps' = [steps EXCEPT !.query = @ + 1]
  /\ UNCHANGED <<nextId, _observables, _components, timers, handles, live,
                 config, memoryUsage, silenced, disposed>>

CanCreatePlain == nextId <= MaxSources
CanCreateComputed == MaxSources < nextId /\ nextId <= MaxObs
CanWrite == steps.write < MaxWrites
CanSub == steps.sub < MaxSubs
CanMisc == steps.misc + steps.dispose < MaxMisc

Next ==
  \/ CanCreatePlain /\ \E v \in InitVals : CreateObservable(v)
  \/ CanCreateComputed /\ \E ds \in DepLists, lazy \in BOOLEAN, m \in {"ok", "throws"} :
                    CreateComputed(ds, lazy, m)
  \/ CanWrite /\ \E o \in Plain, v \in WriteVals : Write(o, v)
  \/ CanWrite /\ \E o \in Plain, v \in WriteVals : SilentSet(o, v)
  \/ CanMisc /\ \E o \in _observables : Read(o)
  \/ CanSub /\ \E o \in _observables, cb \in AppCallbacks : Subscribe(o, cb)
  \/ CanMisc /\ \E h \in handles : Unsubscribe(h)
  \/ CanMisc /\ \E c \in Computeds : Recompute(c)
  \/ CanMisc /\ \E c \in Computeds : Dispose(c)
  \/ CanMisc /\ \E c \in Computeds, m \in Modes : SetMode(c, m)

Spec == Init /\ [][Next]_vars

(***************************************************************************)
(* SpecCell: plain observables with up to CellSubs subscriptions.          *)
(***************************************************************************)
NextCell ==
  \/ nextId <= MaxCells /\ \E v \in InitVals : CreateObservable(v)
  \/ steps.write < CellWrites /\ \E o \in Plain, v \in CellVals : Write(o, v)
  \/ steps.write < CellWrites /\ \E o \in Plain, v \in CellVals : SilentSet(o, v)
  \/ steps.misc < CellMisc /\ \E o \in _observables : Read(o)
  \/ steps.sub < CellSubs /\ \E o \in _observables, cb \in AppCallbacks : Subscribe(o, cb)
  \/ steps.misc < CellMisc /\ \E h \in handles : Unsubscribe(h)

SpecCell == Init /\ [][NextCell]_vars

(***************************************************************************)
(* SpecThrow: as Spec, with subscribers and compute functions that may     *)
(* throw a value that is not an Error (throw null).                        *)
(***************************************************************************)
NextThrow ==
  \/ CanCreatePlain /\ \E v \in InitVals : CreateObservable(v)
  \/ CanCreateComputed /\ \E ds \in DepLists, lazy \in BOOLEAN, m \in AllModes \ {"slow"} :
                    CreateComputed(ds, lazy, m)
  \/ steps.write < ThrowWrites /\ \E o \in Plain, v \in WriteVals : Write(o, v)
  \/ steps.sub < ThrowSubs /\ \E o \in _observables, cb \in AllCallbacks : Subscribe(o, cb)
  \/ steps.misc < ThrowMisc /\ \E c \in Computeds : Recompute(c)
  \/ steps.misc < ThrowMisc /\ \E c \in Computeds, m \in AllModes : SetMode(c, m)

SpecThrow == Init /\ [][NextThrow]_vars

(***************************************************************************)
(* SpecDispose: a computed over two observables that is disposed more than *)
(* once, between writes to its sources.                                    *)
(***************************************************************************)
NextDispose ==
  \/ CanCreatePlain /\ \E v \in InitVals : CreateObservable(v)
  \/ CanCreateComputed /\ \E ds \in DepLists, lazy \in BOOLEAN :
                    CreateComputed(ds, lazy, "ok")
  \/ steps.write < DisposeWrites /\ \E o \in Plain, v \in WriteVals : Write(o, v)
  \/ steps.dispose < MaxDisposes /\ \E c \in Computeds : Dispose(c)

SpecDispose == Init /\ [][NextDispose]_vars

(***************************************************************************)
(* SpecNested: one observable whose subscribers include one that writes an *)
(* object into the observable it is subscribed to.                         *)
(***************************************************************************)
NextNested ==
  \/ nextId <= MaxCells /\ \E v \in InitVals : CreateObservable(v)
  \/ steps.write < NestWrites /\ \E o \in Plain, v \in WriteVals : Write(o, v)
  \/ steps.sub < NestSubs
       /\ \E o \in _observables :
            \E cb \in {Logger(1), Logger(2), Writer(o, 1)} : Subscribe(o, cb)
  \/ steps.misc < NestMisc /\ \E h \in handles : Unsubscribe(h)

SpecNested == Init /\ [][NextNested]_vars

(***************************************************************************)
(* SpecLogs: the logs of the ObservabilitySystem under periodic            *)
(* collection, direct calls and configure.  The application records a      *)
(* running number as metric value and alternates between two error types   *)
(* and two issue types, so that entries can be told apart; the browser has *)
(* performance.memory and reports a growing heap size.                     *)
(***************************************************************************)
Pushes == steps.metric + steps.err + steps.issue + steps.tick
ErrorTypeAt(k) == IF k % 2 = 0 THEN "appError" ELSE "netError"
IssueTypeAt(k) == IF k % 2 = 0 THEN "slowRender" ELSE "slowQuery"
LogOptions ==
  {[NoOptions EXCEPT !.samplingRate = Num(0)],
   [NoOptions EXCEPT !.maxHistoryItems = Num(MinCap)],
   [NoOptions EXCEPT !.maxIssues = Num(MinCap)],
   [NoOptions EXCEPT !.maxErrors = Num(MinCap)]}

NextLogs ==
  \/ steps.conf < LogConfigures /\ \E options \in LogOptions : Configure(options)
  \/ Pushes < MaxPushes /\ RecordMetricCall("custom", steps.metric + 1)
  \/ Pushes < MaxPushes /\ RecordErrorCall(ErrorTypeAt(steps.err))
  \/ Pushes < MaxPushes /\ ReportIssueCall(IssueTypeAt(steps.issue))
  \/ Pushes < MaxPushes /\ \E t \in DOMAIN timers : Tick(t, TRUE, steps.tick + 1)
  \/ Len(timers) < LogTimers /\ StartPeriodicCollection(TRUE)

SpecLogs == Init /\ [][NextLogs]_vars

(***************************************************************************)
(* SpecHistory: one observable that is read and written, with detailed     *)
(* mode switched on by configure, alone or with the smallest history cap.  *)
(***************************************************************************)
HistoryOptions ==
  {[NoOptions EXCEPT !.isDetailedMode = Bool(TRUE)],
   [NoOptions EXCEPT !.isDetailedMode = Bool(TRUE),
                     !.maxHistoryItems = Num(MinCap)]}

NextHistory ==
  \/ nextId <= MaxCells /\ \E v \in InitVals : CreateObservable(v)
  \/ steps.conf < LogConfigures
       /\ \E options \in HistoryOptions : Configure(options)
  \/ steps.misc + steps.write < HistoryOps /\ \E o \in _observables : Read(o)
  \/ steps.misc + steps.write < HistoryOps /\ \E o \in Plain : Write(o, Num(2))

SpecHistory == Init /\ [][NextHistory]_vars

(***************************************************************************)
(* SpecConfig: configure called with arbitrary numbers, between direct     *)
(* calls that record.  A sampling rate is in tenths: Num(5) is 0.5.        *)
(***************************************************************************)
OptionNumbers == {Num(-5), Num(5), Num(2000), Infinity, NegInfinity, NaN}
ConfigOptions ==
  {NoOptions, [NoOptions EXCEPT !.verbose = Bool(TRUE)],
   [NoOptions EXCEPT !.samplingRate = Str(<<"0", ".", "5">>)],
   [NoOptions EXCEPT !.isDetailedMode = Bool(TRUE), !.maxErrors = Num(20)],
   [NoOptions EXCEPT !.isDetailedMode = Null, !.verbose = Num(1)]}
  \cup {[NoOptions EXCEPT !.samplingRate = x] : x \in OptionNumbers}
  \cup {[NoOptions EXCEPT !.maxHistoryItems = x] : x \in OptionNumbers}
  \cup {[NoOptions EXCEPT !.maxIssues = x] : x \in OptionNumbers}
  \cup {[NoOptions EXCEPT !.maxErrors = x] : x \in OptionNumbers}

NextConfig ==
  \/ steps.conf < MaxConfigures /\ \E options \in ConfigOptions : Configure(options)
  \/ steps.metric + steps.err < ConfigPushes
       /\ RecordMetricCall("custom", steps.metric + 1)
  \/ steps.metric + steps.err < ConfigPushes
       /\ RecordErrorCall(ErrorTypeAt(steps.err))

SpecConfig == Init /\ [][NextConfig]_vars

(***************************************************************************)
(* SpecMonitor: observables, computeds over one observable and components  *)
(* of the base class are created in any order, used, and queried, between  *)
(* calls of resetMetrics.                                                  *)
(***************************************************************************)
Uses == steps.misc + steps.write + steps.render

NextMonitor ==
  \/ nextId <= MaxObs /\ \E v \in {Num(1), Undefined} : CreateObservable(v)
  \/ nextId <= MaxObs
       /\ \E o \in _observables, lazy \in BOOLEAN : CreateComputed(<<o>>, lazy, "ok")
  \/ nextId <= MaxObs /\ CreateComponent("ok")
  \/ Uses < MonitorUses /\ \E o \in _observables : Read(o)
  \/ Uses < MonitorUses /\ \E o \in Plain : Write(o, Num(2))
  \/ Uses < MonitorUses
       /\ \E c \in DOMAIN _components, t \in {FastTime, LongTime} : Render(c, t)
  \/ steps.dispose < MonitorResets /\ \E c \in Computeds : Dispose(c)
  \/ steps.reset < MonitorResets /\ ResetMetrics
  \/ steps.query < MonitorQueries /\ \E includeDetailed \in BOOLEAN :
                                       GetMetrics(includeDetailed)
  \/ steps.query < MonitorQueries /\ ExportToPrometheus

SpecMonitor == Init /\ [][NextMonitor]_vars

(***************************************************************************)
(* SpecHot: up to MaxObs observables and components, written and rendered  *)
(* one at a time or in loops of the application, one observable set to     *)
(* undefined by silentSet, and findHotspots.                               *)
(***************************************************************************)
\* An entity used count times may be used n times more: once up to
\* HotSingles times before and after its one loop of burst uses.
CanRepeat(count, n, burst) ==
  IF n = 1 THEN count % burst < HotSingles ELSE count < burst

NextHot ==
  \/ nextId <= MaxObs /\ CreateObservable(Num(1))
  \/ nextId <= MaxObs /\ CreateComponent("ok")
  \/ \E o \in Plain, n \in {1, BurstWrites} :
       CanRepeat(_metrics[o].writes, n, BurstWrites) /\ WriteMany(o, n)
  \/ \E c \in DOMAIN _components, n \in {1, BurstRenders} :
       CanRepeat(_components[c].renders, n, BurstRenders)
       /\ RenderMany(c, n, SlowTime)
  \/ Cardinality(silenced) < HotSilentSets /\ \E o \in Plain : SilentSet(o, Undefined)
  \/ steps.query < HotQueries /\ FindHotspots

SpecHot == Init /\ [][NextHot]_vars

(***************************************************************************)
(* SpecTimer: periodic collection is started, with or without a global     *)
(* window, its timers run and are cancelled, while an observable is read.  *)
(***************************************************************************)
NextTimer ==
  \/ nextId <= MaxCells /\ CreateObservable(Num(1))
  \/ steps.misc < TimerReads /\ \E o \in _observables : Read(o)
  \/ steps.timer < TimerCalls /\ \E window \in BOOLEAN : StartPeriodicCollection(window)
  \/ steps.timer < TimerCalls /\ \E t \in DOMAIN timers : Cancel(t)
  \/ steps.tick < TimerTicks
       /\ \E t \in DOMAIN timers, mem \in BOOLEAN : Tick(t, mem, steps.tick + 1)

SpecTimer == Init /\ [][NextTimer]_vars

(***************************************************************************)
(* SpecFail: observables with subscribers that throw, computeds over one   *)
(* observable whose compute function throws, and components whose          *)
(* getMetrics throws, an Error or null; the application writes, renders,   *)
(* recomputes, records an error of its own, sets the sampling rate to 0,   *)
(* and queries the metrics and the hotspots.                               *)
(***************************************************************************)
FailModes == {"ok", "throws", "thrownull"}
FailCallbacks == {Logger(1), Thrower, NullThrower}
FailUses == steps.sub + steps.misc + steps.err + steps.conf + Cardinality(silenced)
\* The application sets up its MaxFailIds entities before it uses them.
CanFail == nextId > MaxFailIds /\ FailUses < MaxFailUses

NextFail ==
  \/ nextId <= MaxFailIds /\ CreateObservable(Num(1))
  \/ nextId <= MaxFailIds
       /\ \E o \in Plain, m \in FailModes : CreateComputed(<<o>>, FALSE, m)
  \/ nextId <= MaxFailIds /\ \E m \in FailModes : CreateComponent(m)
  \/ CanFail /\ \E o \in Plain, cb \in FailCallbacks : Subscribe(o, cb)
  \/ CanFail /\ \E c \in Computeds : Recompute(c)
  \/ CanFail /\ RecordErrorCall("appError")
  \/ CanFail /\ Configure([NoOptions EXCEPT !.samplingRate = Num(0)])
  \/ CanFail /\ \E o \in Plain \ silenced : SilentSet(o, Undefined)
  \/ \E o \in Plain, n \in {1, BurstWrites + 1} :
       _metrics[o].writes = 0 /\ o \notin silenced /\ WriteMany(o, n)
  \/ \E c \in DOMAIN _components :
       _components[c].renders = 0 /\ RenderMany(c, BurstRenders + 1, SlowTime)
  \/ steps.query < FailQueries /\ GetMetrics(FALSE)
  \/ steps.query < FailQueries /\ FindHotspots

SpecFail == Init /\ [][NextFail]_vars

(***************************************************************************)
(* SpecArgs: subscribe and computed called with arguments of the wrong     *)
(* type, and computed called with dependency lists in which an entry is    *)
(* null (written 0); the computeds are written through, recomputed and     *)
(* disposed.                                                               *)
(***************************************************************************)
\* Dependency lists of one or two entries, at least one an observable.
ArgDeps ==
  {<<a>> : a \in Plain}
    \cup {<<a, b>> : a \in Plain, b \in Plain \cup {0}}
    \cup {<<0, b>> : b \in Plain}
ArgUses == steps.write + steps.sub + steps.dispose

NextArgs ==
  \/ nextId <= MaxSources /\ CreateObservable(Num(1))
  \/ nextId <= MaxObs
       /\ \E isFn \in BOOLEAN, isArray \in BOOLEAN, ds \in ArgDeps, lazy \in BOOLEAN :
            CreateComputedOf(isFn, isArray, ds, lazy, "ok")
  \/ ArgUses < MaxArgUses
       /\ \E o \in _observables, cb \in {Logger(1), NotAFunction(0), NotAFunction(1)} :
            Subscribe(o, cb)
  \/ ArgUses < MaxArgUses /\ \E o \in Plain, v \in {Num(2), Num(3)} : Write(o, v)
  \/ ArgUses < MaxArgUses /\ \E c \in Computeds : Dispose(c)

SpecArgs == Init /\ [][NextArgs]_vars

(***************************************************************************)
(* SpecDiamond: observable 1, computeds 2 and 3 over [1], and computeds    *)
(* over [2, 3] after them; loggers subscribe to any of them and the        *)
(* application writes to observable 1.                                     *)
(***************************************************************************)
NextDiamond ==
  \/ nextId = 1 /\ CreateObservable(Num(1))
  \/ nextId \in 2..3 /\ \E lazy \in BOOLEAN : CreateComputed(<<1>>, lazy, "ok")
  \/ 3 < nextId /\ nextId <= MaxIds
       /\ \E lazy \in BOOLEAN : CreateComputed(<<2, 3>>, lazy, "ok")
  \/ steps.sub < DiamondSubs
       /\ \E o \in _observables, cb \in {Logger(1), Logger(2)} : Subscribe(o, cb)
  \/ steps.write < DiamondWrites /\ \E v \in {Num(2), Num(3)} : 1 \in _observables /\ Write(1, v)

SpecDiamond == Init /\ [][NextDiamond]_vars

(***************************************************************************)
(* SpecSampling: an observable and computeds over it are subscribed to,    *)
(* read, written and recomputed, before and after a call of configure that *)
(* sets the sampling rate to 0 with detailed mode on, or to 0.5.           *)
(***************************************************************************)
SamplingRates == {Num(0), Num(5), Num(FullRate)}
SamplingOptions ==
  {[NoOptions EXCEPT !.samplingRate = Num(0), !.isDetailedMode = Bool(TRUE)],
   [NoOptions EXCEPT !.samplingRate = Num(5)]}
SamplingOps == steps.write + steps.sub + steps.misc

NextSampling ==
  \/ nextId = 1 /\ CreateObservable(Num(1))
  \/ 1 < nextId /\ nextId <= MaxSources
       /\ \E lazy \in BOOLEAN, m \in {"ok", "throws"} : CreateComputed(<<1>>, lazy, m)
  \/ steps.conf < SamplingConfigures
       /\ \E options \in SamplingOptions : Configure(options)
  \/ SamplingOps < SamplingUses /\ \E o \in _observables : Read(o)
  \/ SamplingOps < SamplingUses /\ \E o \in Plain, v \in {Num(1), Num(2)} : Write(o, v)
  \/ SamplingOps < SamplingUses
       /\ \E o \in _observables, cb \in {Logger(1), Thrower} : Subscribe(o, cb)
  \/ SamplingOps < SamplingUses /\ \E c \in Computeds : Recompute(c)

SpecSampling == Init /\ [][NextSampling]_vars

(***************************************************************************)
(* SpecReport: observables, computeds and components, some with a          *)
(* getMetrics that throws, are read, written (also with undefined),        *)
(* rendered, subscribed to and recomputed between queries: getMetrics,     *)
(* updateGlobalCounters, findHotspots and exportToPrometheus.              *)
(***************************************************************************)
ReportOps == steps.misc + steps.write + steps.render + steps.sub
CanUse == ReportOps < ReportUses
CanQuery == steps.query < ReportQueries

NextReport ==
  \/ nextId <= MaxReportIds /\ CreateObservable(Num(1))
  \/ nextId <= MaxReportIds
       /\ \E o \in Plain, lazy \in BOOLEAN : CreateComputed(<<o>>, lazy, "ok")
  \/ nextId <= MaxReportIds /\ \E m \in FailModes : CreateComponent(m)
  \/ CanUse /\ \E o \in _observables : Read(o)
  \/ CanUse /\ \E o \in Plain, v \in {Num(2), Undefined} : Write(o, v)
  \/ CanUse /\ \E c \in DOMAIN _components : Render(c, FastTime)
  \/ CanUse /\ \E o \in _observables : Subscribe(o, Logger(1))
  \/ CanUse /\ \E c \in Computeds : Recompute(c)
  \/ CanQuery /\ \E includeDetailed \in BOOLEAN : GetMetrics(includeDetailed)
  \/ CanQuery /\ UpdateGlobalCountersCall
  \/ CanQuery /\ FindHotspots
  \/ CanQuery /\ ExportToPrometheus

SpecReport == Init /\ [][NextReport]_vars

(***************************************************************************)
(* Properties.                                                             *)
(***************************************************************************)
Registered(o, cb) == InSeq(cb, _subscribers[o])

\* How often the trace tr has cb called by a notification of o.
Times(tr, o, cb) == Cardinality({j \in 1..Len(tr) : tr[j].o = o /\ tr[j].cb = cb})

\* The step is a call of the setter of o by the application.
IsWrite(o) == last'.op = "write" /\ last'.o = o

\* C1: for every observable not changed by silentSet and every subscriber
\* registered on it, the number of invocations of the subscriber since its
\* registration equals the number of writes since then whose new value was
\* not identity-equal to the value stored just before.
C1_InvocationsEqualChangingWrites ==
  \A o \in _observables \ silenced : \A cb \in AppCallbacks :
    Registered(o, cb) => calls[o][cb] = changed[o][cb]

\* C1 witness: a logger registered throughout three writes, one of which
\* wrote the value already stored, has been invoked twice.
C1_Witness ==
  \E o \in _observables \ silenced :
    /\ Registered(o, Logger(1))
    /\ calls[o][Logger(1)] = 2
    /\ changed[o][Logger(1)] = 2
    /\ _metrics[o].writes = 3

\* C2: a call of the setter adds exactly one to the writes counter of its
\* observable, whether or not it notifies, and leaves every reads counter
\* alone; a reads counter changes only by a read of that observable, by one;
\* a write of a value not identity-equal to the stored one calls each
\* registered subscriber exactly once, and a write of the stored value (as
\* the second of write(x); write(x)) calls none.
C2_CountersCountCalls ==
  [][\A o \in Ids :
       /\ IsWrite(o) =>
            /\ _metrics'[o].writes = _metrics[o].writes + 1
            /\ \A q \in Ids : _metrics'[q].reads = _metrics[q].reads
            /\ last'.v # _value[o] =>
                 \A cb \in AppCallbacks :
                   Registered(o, cb) => Times(last'.trace, o, cb) = 1
            /\ last'.v = _value[o] => last'.trace = <<>>
       /\ _metrics'[o].writes # _metrics[o].writes => IsWrite(o)
       /\ _metrics'[o].reads # _metrics[o].reads =>
            /\ last'.op = "read" /\ last'.o = o
            /\ _metrics'[o].reads = _metrics[o].reads + 1]_vars

\* C2 witness: subscribe a logger, write(2), write(2): the second write has
\* called nobody, writes = 2, reads = 0, the logger was called once.
C2_Witness ==
  \E o \in _observables :
    /\ last.op = "write" /\ last.o = o /\ last.v = Num(2) /\ last.trace = <<>>
    /\ Registered(o, Logger(1)) /\ calls[o][Logger(1)] = 1
    /\ _metrics[o].writes = 2 /\ _metrics[o].reads = 0

\* C3: a write that changes the value calls every registered subscriber with
\* the new value, in registration order, each exactly once, and has done so
\* when it returns, normally, to its caller.
C3_NotifiesInRegistrationOrder ==
  [][\A o \in Ids :
       IsWrite(o) /\ last'.v # _value[o] =>
         /\ last'.ex = "none"
         /\ last'.trace = [j \in 1..Len(_subscribers[o]) |->
                             [o |-> o, cb |-> _subscribers[o][j], v |-> last'.v]]]_vars

\* C3 witness: a write has notified three subscribers, the first registered
\* being the second logger.
C3_Witness ==
  /\ last.op = "write" /\ last.ex = "none" /\ Len(last.trace) = 3
  /\ last.trace[1].cb = Logger(2) /\ last.trace[3].cb = Logger(1)
  /\ _subscribers[last.o] = <<Logger(2), Thrower, Logger(1)>>

\* A subscriber that throws was called by the last operation, a write of o.
ThrewIn(o) ==
  \E j \in 1..Len(last.trace) :
    last.trace[j].o = o /\ last.trace[j].cb \in {Thrower, NullThrower}

\* C4: when a subscriber throws during the notification of a write, every
\* registered subscriber has been called with the new value, the stored
\* value is the new value, and the write returns normally.
C4_SubscriberFailureIsolated ==
  \A o \in _observables :
    last.op = "write" /\ last.o = o /\ ThrewIn(o) =>
      /\ last.ex = "none"
      /\ _value[o] = last.v
      /\ \A cb \in AllCallbacks : Registered(o, cb) => Times(last.trace, o, cb) = 1

(***************************************************************************)
(* Computeds.                                                              *)
(***************************************************************************)
IsComputed(c) == computeds[c].isComputed
Deps(c) == computeds[c].deps
DependsOn(c, o) == \E j \in 1..Len(Deps(c)) : Deps(c)[j] = o
\* c is a computed over two distinct plain observables.
OverPlain(c) ==
  /\ IsComputed(c) /\ Len(Deps(c)) = 2 /\ Deps(c)[1] # Deps(c)[2]
  /\ \A j \in 1..2 : ~IsComputed(Deps(c)[j])
Returns(c) == mode[c] \in {"ok", "slow"}
\* a.value + b.value over the stored values vals
SumIn(vals, c) == JsAdd(vals[Deps(c)[1]], vals[Deps(c)[2]])
\* The step is computed(...) returning the new computed c.
IsCreation(c) == last'.op = "computed" /\ last'.o = c
\* The step is a write by the application that changes a source of c.
SourceChanged(c) ==
  \E o \in Ids : IsWrite(o) /\ last'.v # _value[o] /\ DependsOn(c, o)
\* Every event of tr in which a subscriber of c is called carries v.
Carries(tr, c, v) == \A j \in 1..Len(tr) : tr[j].o = c => tr[j].v = v

\* C5 as stated: a non-lazy computed over [a, b] with a.value + b.value has
\* the value a + b right after its creation, and every write that changes a
\* source recomputes it exactly once and calls each of its subscribers
\* exactly once, with the newly computed value.
C5_AsStated ==
  [][\A c \in Ids :
       /\ IsCreation(c) /\ ~computeds'[c].lazy /\ mode'[c] \in {"ok", "slow"} =>
            _value'[c] = JsAdd(_value'[computeds'[c].deps[1]],
                               _value'[computeds'[c].deps[2]])
       /\ OverPlain(c) /\ ~computeds[c].lazy /\ c \notin disposed /\ Returns(c)
          /\ SourceChanged(c) =>
            /\ _computeMetrics'[c].totalComputations =
                 _computeMetrics[c].totalComputations + 1
            /\ _value'[c] = SumIn(_value', c)
            /\ \A cb \in AppCallbacks :
                 Registered(c, cb) => Times(last'.trace, c, cb) = 1
            /\ Carries(last'.trace, c, _value'[c])]_vars

\* C5 amended: as stated, except that the subscribers of the computed are
\* called (once, with the new value) exactly when the newly computed value
\* is not identity-equal to the value the computed held, and not at all
\* otherwise.
C5_NotifiesWhenValueChanges ==
  [][\A c \in Ids :
       /\ IsCreation(c) /\ ~computeds'[c].lazy /\ mode'[c] \in {"ok", "slow"} =>
            _value'[c] = JsAdd(_value'[computeds'[c].deps[1]],
                               _value'[computeds'[c].deps[2]])
       /\ OverPlain(c) /\ ~computeds[c].lazy /\ c \notin disposed /\ Returns(c)
          /\ SourceChanged(c) =>
            /\ _computeMetrics'[c].totalComputations =
                 _computeMetrics[c].totalComputations + 1
            /\ _value'[c] = SumIn(_value', c)
            /\ \A cb \in AppCallbacks :
                 Registered(c, cb) =>
                   Times(last'.trace, c, cb) = IF _value'[c] # _value[c] THEN 1 ELSE 0
            /\ Carries(last'.trace, c, _value'[c])]_vars

\* C5 witness: a logger of a computed over sources holding 2 and 1 has just
\* been called with 3 by a write to a source, the second computation.
C5_Witness ==
  \E c \in Computeds :
    /\ ~computeds[c].lazy /\ c \notin disposed
    /\ last.op = "write" /\ DependsOn(c, last.o)
    /\ last.trace = <<[o |-> last.o, cb |-> Trigger(c, 1), v |-> Num(2)],
                      [o |-> c, cb |-> Logger(1), v |-> Num(3)]>>
    /\ _value[c] = Num(3)
    /\ _computeMetrics[c].totalComputations = 2

\* C5 witness of the amended case: one source holds NaN, a write changed the
\* other source from 1 to 2, the computed was recomputed from NaN to NaN and
\* its logger, called once before, was not called again.
C5_WitnessUnchanged ==
  \E c \in Computeds :
    /\ ~computeds[c].lazy /\ c \notin disposed
    /\ Registered(c, Logger(1)) /\ calls[c][Logger(1)] = 1
    /\ last.op = "write" /\ last.v = Num(2) /\ DependsOn(c, last.o)
    /\ last.trace = <<[o |-> last.o, cb |-> Trigger(c, 2), v |-> Num(2)]>>
    /\ _value[c] = NaN
    /\ _computeMetrics[c].totalComputations = 3

\* C6: between operations, a non-lazy computed that is not disposed, whose
\* compute function has never thrown and whose sources were changed only
\* through their setters holds a.value + b.value of the current values of
\* its sources.
C6_ValueIsFunctionOfSources ==
  \A c \in Computeds :
    /\ ~computeds[c].lazy /\ c \notin disposed /\ c \notin everThrew
    /\ \A j \in 1..Len(Deps(c)) : Deps(c)[j] \notin silenced
    => _value[c] = SumIn(_value, c)

\* C6 witness: after a write to each of its two sources such a computed
\* holds 4, the sum of the current values 2 and 2.
C6_Witness ==
  \E c \in Computeds :
    /\ ~computeds[c].lazy /\ c \notin disposed /\ c \notin everThrew
    /\ \A j \in 1..Len(Deps(c)) :
         Deps(c)[j] \notin silenced /\ _value[Deps(c)[j]] = Num(2)
    /\ _value[c] = Num(4)
    /\ _computeMetrics[c].totalComputations = 3

\* The step notifies the subscribers of o.
Notifying(o) == \E j \in 1..Len(last'.trace) : last'.trace[j].o = o
\* The step triggers c: recompute() is called on it, or a dependency it is
\* subscribed to notifies a change.
Triggered(c) ==
  \/ last'.op = "recompute" /\ last'.o = c
  \/ c \notin disposed /\ \E o \in Ids : DependsOn(c, o) /\ Notifying(o)

ComputeErrors(log) ==
  Cardinality({j \in 1..Len(log) : log[j].type = "computeError"})

\* C8: when the compute function of a computed throws, the errors counter of
\* the computed grows by 1 and one "computeError" entry is logged; on the
\* notification path (a changing write to a source of a computed that is not
\* disposed) the write returns normally, every subscriber of the source is
\* called, and the computed keeps its value; a direct recompute() throws
\* what the compute function threw.
C8_ComputeFailureHandled ==
  [][\A c \in Ids :
       IsComputed(c) /\ mode[c] \in {"throws", "thrownull"} =>
         /\ last'.op = "recompute" /\ last'.o = c =>
              /\ _computeMetrics'[c].errors = _computeMetrics[c].errors + 1
              /\ ComputeErrors(errors') = ComputeErrors(errors) + 1
              /\ last'.ex = IF mode[c] = "throws" THEN "Error" ELSE "null"
              /\ _value'[c] = _value[c]
         /\ \A o \in Ids :
              IsWrite(o) /\ last'.v # _value[o] /\ DependsOn(c, o)
                /\ OverPlain(c) /\ c \notin disposed
                /\ ~Registered(o, NullThrower) =>
                   /\ _computeMetrics'[c].errors = _computeMetrics[c].errors + 1
                   /\ ComputeErrors(errors') = ComputeErrors(errors) + 1
                   /\ last'.ex = "none"
                   /\ \A cb \in AllCallbacks \cup {Trigger(d, j) : d \in Ids, j \in 1..2} :
                        Registered(o, cb) => Times(last'.trace, o, cb) = 1
                   /\ _value'[c] = _value[c]]_vars

\* C9: computed() with a compute function that throws in the initial
\* evaluation of a non-lazy computed returns normally, the computed holds
\* undefined and is subscribed to each of its dependencies; as long as it
\* has not succeeded, a change notification of a dependency runs the compute
\* function again and, when that returns, stores its result.
C9_InitialFailureIsCaught ==
  [][\A c \in Ids :
       /\ IsCreation(c) /\ ~computeds'[c].lazy /\ mode'[c] = "throws" =>
            /\ last'.ex = "none"
            /\ _value'[c] = Undefined
            /\ _computeMetrics'[c] = [totalComputations |-> 1, errors |-> 1]
            /\ \A j \in 1..Len(computeds'[c].deps) :
                 InSeq(Trigger(c, j), _subscribers'[computeds'[c].deps[j]])
       /\ IsComputed(c) /\ ~computeds[c].lazy /\ c \in everThrew
          /\ _value[c] = Undefined /\ c \notin disposed
          /\ (\E o \in Ids : DependsOn(c, o) /\ Notifying(o)) =>
            /\ _computeMetrics'[c].totalComputations >
                 _computeMetrics[c].totalComputations
            /\ Returns(c) => _value'[c] = SumIn(_value', c)]_vars

\* C9 witness: a non-lazy computed whose initial evaluation threw has been
\* recomputed by a write to a source after its compute function recovered,
\* and holds the sum 3.
C9_Witness ==
  \E c \in Computeds :
    /\ ~computeds[c].lazy /\ c \in everThrew
    /\ _computeMetrics[c] = [totalComputations |-> 2, errors |-> 1]
    /\ last.op = "write" /\ DependsOn(c, last.o)
    /\ _value[c] = Num(3)

\* C10: a write never changes the computation count or the value of a
\* disposed computed; a computed that is not disposed is subscribed to each
\* of its sources, whether or not it has subscribers of its own, and a write
\* that changes one of its sources makes it compute.
C10_DisposeStopsRecomputation ==
  [][\A c \in Ids :
       IsComputed(c) =>
         /\ c \in disposed /\ last'.op = "write" =>
              /\ _computeMetrics'[c] = _computeMetrics[c]
              /\ _value'[c] = _value[c]
         /\ c \notin disposed =>
              /\ \A j \in 1..Len(Deps(c)) : Registered(Deps(c)[j], Trigger(c, j))
              /\ SourceChanged(c) =>
                   _computeMetrics'[c].totalComputations >
                     _computeMetrics[c].totalComputations]_vars

\* C10 witness: after dispose() a write has changed a source to 2 and the
\* computed still holds 2, the sum of the former values, computed once.
C10_Witness ==
  \E c \in Computeds :
    /\ c \in disposed /\ ~computeds[c].lazy
    /\ last.op = "write" /\ last.v = Num(2) /\ DependsOn(c, last.o)
    /\ _value[last.o] = Num(2)
    /\ _value[c] = Num(2) /\ SumIn(_value, c) = Num(3)
    /\ _computeMetrics[c].totalComputations = 1

\* C11: a call of dispose() on a computed that was already disposed returns
\* normally and changes nothing: every subscriber set, every counter of
\* every observable (its subscriptions counter included), every value and
\* every log are as the first call left them.
C11_DisposeIsIdempotent ==
  [][\A c \in Ids :
       last'.op = "dispose" /\ last'.o = c /\ c \in disposed =>
         /\ last'.ex = "none"
         /\ _subscribers' = _subscribers
         /\ _metrics' = _metrics
         /\ UNCHANGED <<_value, _computeMetrics, computeds, errors,
                        performanceIssues, detailed>>]_vars

\* C12: subscribing a callback that is already registered on the observable
\* leaves the subscriber set, and so the position of the callback in the
\* notification order, as it was; every changing write calls each
\* registered callback exactly once.
C12_SubscribedTwiceStoredOnce ==
  [][\A o \in Ids :
       /\ last'.op = "subscribe" /\ last'.o = o /\ Registered(o, last'.cb) =>
            _subscribers'[o] = _subscribers[o]
       /\ IsWrite(o) /\ last'.v # _value[o] =>
            \A cb \in AppCallbacks :
              Registered(o, cb) => Times(last'.trace, o, cb) = 1]_vars

\* C12 witness: logger 1 was subscribed first and third, logger 2 second,
\* nothing was unsubscribed, and a write has just called logger 1 and then
\* logger 2, once each.
C12_Witness ==
  \E o \in _observables :
    /\ {[o |-> o, cb |-> Logger(1), g |-> 1], [o |-> o, cb |-> Logger(2), g |-> 2],
        [o |-> o, cb |-> Logger(1), g |-> 3]} \subseteq live
    /\ last.op = "write" /\ last.o = o
    /\ last.trace = <<[o |-> o, cb |-> Logger(1), v |-> last.v],
                      [o |-> o, cb |-> Logger(2), v |-> last.v]>>

\* The step is a call of the unsubscribe function h by the application.
IsUnsubscribe(h) ==
  last'.op = "unsubscribe" /\ last'.o = h.o /\ last'.cb = h.cb /\ last'.v = Num(h.g)

\* C13: for a handle h whose callback was removed after h was returned,
\* subscribing the callback again registers it, a changing write then calls
\* it, and calling h once more leaves that new registration in place.
C13_ResubscriptionIsIndependent ==
  [][\A h \in handles \ live :
       /\ last'.op = "subscribe" /\ last'.o = h.o /\ last'.cb = h.cb =>
            InSeq(h.cb, _subscribers'[h.o])
       /\ IsWrite(h.o) /\ last'.v # _value[h.o] /\ Registered(h.o, h.cb) =>
            Times(last'.trace, h.o, h.cb) = 1
       /\ IsUnsubscribe(h) /\ Registered(h.o, h.cb) =>
            InSeq(h.cb, _subscribers'[h.o])]_vars

\* C14: silentSet(v) on o stores v in o and changes nothing else: no
\* subscriber is called, and the counters and histories of the observables,
\* the subscriber sets, the metric series and the logs are unchanged; a
\* write of the identity-equal value right after it calls no subscriber.
C14_SilentSetChangesOnlyTheValue ==
  [][\A o \in Ids :
       /\ last'.op = "silentSet" /\ last'.o = o =>
            /\ _value' = [_value EXCEPT ![o] = last'.v]
            /\ last'.trace = <<>> /\ last'.ex = "none"
            /\ UNCHANGED <<_metrics, _subscribers, detailed, errors,
                           performanceIssues, memoryUsage, totals,
                           _computeMetrics, computeds, config, _observables>>
       /\ last.op = "silentSet" /\ last.o = o /\ IsWrite(o) /\ last'.v = last.v =>
            /\ last'.trace = <<>>
            /\ _value' = _value]_vars

\* C14 witness: the only write an observable has seen, of an object, came
\* after a silentSet had stored that object, and the registered logger was
\* not called.
C14_Witness ==
  \E o \in silenced :
    /\ last.op = "write" /\ last.o = o /\ last.v = Obj(1)
    /\ _metrics[o].writes = 1
    /\ Registered(o, Logger(1))
    /\ last.trace = <<>>

\* The calls of the callbacks cbs[from..to], in order, by a notification of
\* o with v.
Events(o, cbs, from, to, v) ==
  [j \in 1..(to - from + 1) |-> [o |-> o, cb |-> cbs[from + j - 1], v |-> v]]
\* The position of x in the sequence seq, which holds it.
Position(x, seq) == CHOOSE j \in 1..Len(seq) : seq[j] = x

\* C15: when a subscriber S of o, notified of a write of v1, writes v2 (not
\* identity-equal to v1) into o, the callbacks up to S are called with v1,
\* then every subscriber of o is called with v2, and only then the
\* subscribers registered after S are called with v1; the write returns with
\* v2 stored, after three calls of the setter in all (S, called with v2,
\* writes the identity-equal v2 once more).
C15_InnerWriteRunsToCompletion ==
  [][\A o \in Ids :
       IsWrite(o) /\ last'.v # _value[o] /\ last'.v # Obj(1)
       /\ Registered(o, Writer(o, 1)) =>
         /\ last'.trace =
              Events(o, _subscribers[o], 1,
                     Position(Writer(o, 1), _subscribers[o]), last'.v)
              \o Events(o, _subscribers[o], 1, Len(_subscribers[o]), Obj(1))
              \o Events(o, _subscribers[o],
                        Position(Writer(o, 1), _subscribers[o]) + 1,
                        Len(_subscribers[o]), last'.v)
         /\ _value'[o] = Obj(1)
         /\ _metrics'[o].writes = _metrics[o].writes + 3
         /\ last'.ex = "none"]_vars

\* C15 witness: with the writing subscriber registered between two loggers,
\* a write of 2 has just made six calls and left the object stored.
C15_Witness ==
  \E o \in _observables :
    /\ _subscribers[o] = <<Logger(1), Writer(o, 1), Logger(2)>>
    /\ last.op = "write" /\ last.o = o /\ last.v = Num(2)
    /\ Len(last.trace) = 6
    /\ last.trace[5] = [o |-> o, cb |-> Logger(2), v |-> Obj(1)]
    /\ last.trace[6] = [o |-> o, cb |-> Logger(2), v |-> Num(2)]
    /\ _value[o] = Obj(1)

\* The step is a call of recordMetric by the application.
IsRecordMetric == last'.op = "recordMetric"
\* The last cap entries of seq, all of seq when it has no more than cap.
KeepLast(seq, cap) ==
  IF cap.t = "num" /\ Len(seq) > cap.n
  THEN [j \in 1..cap.n |-> seq[Len(seq) - cap.n + j]]
  ELSE seq

\* C16: with samplingRate 0 no call of recordMetric records a sample,
\* whatever Math.random() returns; with samplingRate 1 every call appends
\* its sample, and the series keeps at most maxHistoryItems of them.
C16_SamplingRateEnds ==
  [][IsRecordMetric =>
       /\ samplingRate = Num(0) => detailed' = detailed
       /\ samplingRate = Num(FullRate) =>
            detailed'["custom"] =
              KeepLast(Append(detailed["custom"], last'.v.n), maxHistoryItems)]_vars

\* x <= y on numbers: false when either side is NaN.
Le(x, y) == x.t # "NaN" /\ y.t # "NaN" /\ ~JsGt(x, y)

\* Every bounded sequence is within the cap configured for it.
WithinCaps ==
  /\ \A name \in MetricNames : Le(Num(Len(detailed[name])), maxHistoryItems)
  /\ Le(Num(Len(memoryUsage)), maxHistoryItems)
  /\ Le(Num(Len(performanceIssues)), maxIssues)
  /\ Le(Num(Len(errors)), maxErrors)

\* C17: in every reachable state every metric series and the memory-usage
\* series have at most maxHistoryItems entries, the issue log at most
\* maxIssues and the error log at most maxErrors, for the caps configured
\* in that state.
C17_LogsWithinConfiguredCaps == WithinCaps

\* The sequence after is the sequence before with e appended, reduced to
\* its last cap entries when it is longer than cap.
Pushed(before, after, e, cap) == after = KeepLast(Append(before, e), cap)

\* C18: every insertion into a metric series, the memory-usage series, the
\* issue log or the error log appends the entry and then keeps the last cap
\* entries, in insertion order, cap being the number configured for the
\* sequence: what is dropped is dropped from the front.
C18_EvictionIsFifo ==
  [][/\ last'.op = "recordMetric" /\ detailed' # detailed =>
          Pushed(detailed["custom"], detailed'["custom"], last'.v.n,
                 maxHistoryItems)
     /\ last'.op = "recordError" =>
          Pushed(errors, errors', [type |-> ErrorTypeAt(steps.err)], maxErrors)
     /\ last'.op = "reportPerformanceIssue" =>
          Pushed(performanceIssues, performanceIssues',
                 [type |-> IssueTypeAt(steps.issue)], maxIssues)
     /\ last'.op = "tick" =>
          Pushed(memoryUsage, memoryUsage', steps.tick + 1, maxHistoryItems)]_vars

\* C18 witness: with maxErrors lowered to 10, eleven errors were recorded
\* and the log holds the second to the eleventh of them.
C18_Witness ==
  /\ maxErrors = Num(MinCap) /\ steps.err = 11
  /\ last.op = "recordError"
  /\ errors = [j \in 1..10 |-> [type |-> ErrorTypeAt(j)]]

\* C19: in detailed mode the history of reads and writes of an observable
\* never holds more than maxHistoryItems entries.
C19_HistoryWithinCap ==
  isDetailedMode =>
    \A o \in _observables :
      Le(Num(Len(_metrics[o].history)), maxHistoryItems)

\* C20: in every state samplingRate lies between 0 and 1, and
\* maxHistoryItems, maxIssues and maxErrors are each at least 10.
C20_ConfigurationInRange ==
  /\ Le(Num(0), samplingRate) /\ Le(samplingRate, Num(FullRate))
  /\ Le(Num(MinCap), maxHistoryItems)
  /\ Le(Num(MinCap), maxIssues)
  /\ Le(Num(MinCap), maxErrors)

\* C21: a call of configure leaves every field whose option is absent as it
\* was (so a call with unrecognized keys only changes nothing); a call given
\* the options of the call right before it leaves the configuration as that
\* call left it; and no call of configure changes the metric series, the
\* logs, the global counters or the registry.
C21_ConfigureChangesOnlyWhatIsGiven ==
  [][last'.op = "configure" =>
       /\ last'.options.isDetailedMode = Undefined => isDetailedMode' = isDetailedMode
       /\ last'.options.samplingRate = Undefined => samplingRate' = samplingRate
       /\ last'.options.maxHistoryItems = Undefined =>
            maxHistoryItems' = maxHistoryItems
       /\ last'.options.maxIssues = Undefined => maxIssues' = maxIssues
       /\ last'.options.maxErrors = Undefined => maxErrors' = maxErrors
       /\ last.op = "configure" /\ last.options = last'.options =>
            config' = config
       /\ UNCHANGED <<detailed, errors, performanceIssues, memoryUsage, totals,
                      _observables, _components, nextId>>]_vars

\* C21 witness: configure({maxErrors: 2000}) has been called twice in a row
\* after two errors were recorded; the cap is 2000, the other fields are the
\* defaults and the error log still holds the two entries.
C21_Witness ==
  /\ last.op = "configure" /\ steps.conf = 2 /\ steps.again = 1
  /\ last.options = [NoOptions EXCEPT !.maxErrors = Num(2000)]
  /\ maxErrors = Num(2000)
  /\ maxHistoryItems = Num(DefaultMaxHistoryItems)
  /\ maxIssues = Num(DefaultMaxIssues)
  /\ samplingRate = Num(DefaultSamplingRate) /\ ~isDetailedMode
  /\ Len(errors) = 2

(***************************************************************************)
(* The registry, the global counters and the queries.                      *)
(***************************************************************************)
\* The sum of f over ids.
RECURSIVE Total(_, _)
Total(f, ids) ==
  IF ids = {} THEN 0
  ELSE LET x == CHOOSE y \in ids : TRUE IN f[x] + Total(f, ids \ {x})

NoSeries == [m \in MetricNames |-> <<>>]

\* C22: a call of getMetrics right after resetMetrics returns totalReads,
\* totalWrites, totalRenders and slowRenders of 0, an empty issue log, an
\* empty error log and no detailed series, whatever was read, written and
\* rendered before.
C22_ResetThenGetMetricsIsEmpty ==
  [][last.op = "resetMetrics" /\ last'.op = "getMetrics" =>
       /\ last'.ex = "none"
       /\ last'.ret.global.totalReads = 0
       /\ last'.ret.global.totalWrites = 0
       /\ last'.ret.global.totalRenders = 0
       /\ last'.ret.global.slowRenders = 0
       /\ last'.ret.global.performanceIssues = <<>>
       /\ last'.ret.global.errors = <<>>
       /\ last'.ret.detailed \in {Null, NoSeries}]_vars

\* C23: resetMetrics leaves the registry, the configuration and the counters
\* of every observable, computed and component as they were, and no
\* operation removes an entry of the registry: what is registered under an
\* id stays registered under it.
C23_ResetKeepsRegistry ==
  [][/\ last'.op = "resetMetrics" =>
          UNCHANGED <<_observables, _components, config, _metrics,
                      _computeMetrics, _value, _subscribers, computeds>>
     /\ _observables \subseteq _observables'
     /\ DOMAIN _components \subseteq DOMAIN _components'
     /\ \A o \in _observables : computeds'[o].isComputed = computeds[o].isComputed
     /\ _observables' \cap DOMAIN _components' = {}]_vars

\* C23 witness: resetMetrics has just run with an observable that was read,
\* a component that was rendered and a disposed computed in the registry.
C23_Witness ==
  /\ last.op = "resetMetrics"
  /\ \E o \in _observables : _metrics[o].reads = 1
  /\ \E c \in DOMAIN _components : _components[c].renders = 1
  /\ \E c \in disposed : c \in _observables

\* The step runs updateGlobalCounters.
Refreshing ==
  last'.op \in {"tick", "getMetrics", "exportToPrometheus", "updateGlobalCounters"}

\* C24: when updateGlobalCounters has run, totalReads and totalWrites are
\* the sums of the reads and writes counters of all registered observables
\* (plain or computed, whatever they hold), and totalRenders is the sum of
\* the render counters of all registered components.
C24_TotalsAreSumsOverRegistry ==
  [][Refreshing =>
       /\ totals'.totalReads =
            Total([o \in Ids |-> _metrics'[o].reads], _observables')
       /\ totals'.totalWrites =
            Total([o \in Ids |-> _metrics'[o].writes], _observables')
       /\ totals'.totalRenders =
            Total([c \in DOMAIN _components' |-> _components'[c].renders],
                  DOMAIN _components')]_vars

\* The number a sequence of digits denotes.
RECURSIVE NumberOf(_)
NumberOf(ds) ==
  IF ds = <<>> THEN 0
  ELSE 10 * NumberOf(SubSeq(ds, 1, Len(ds) - 1))
       + (CHOOSE k \in 0..9 : DigitChar[k + 1] = ds[Len(ds)])

CounterNames ==
  <<"js_total_reads", "js_total_writes", "js_total_renders", "js_slow_renders",
    "js_performance_issues", "js_errors">>
\* The global counters and log lengths the step leaves.
CountersAfter ==
  <<totals'.totalReads, totals'.totalWrites, totals'.totalRenders,
    totals'.slowRenders, Len(performanceIssues'), Len(errors')>>
\* The observables whose getMetrics returns.
Reporting(vals) == {o \in _observables : vals[o] # Undefined}

\* C27: exportToPrometheus refreshes the global counters (they are the sums
\* updateGlobalCounters forms of the counters as they are at the call) and
\* returns six stanzas, in the order total_reads, total_writes,
\* total_renders, slow_renders, performance_issues, errors, separated by
\* empty lines; each stanza is a HELP line, a TYPE line saying counter, and
\* the name followed by the number the global counter (or the length of the
\* log) has when the call returns.
C27_ExportsSixCounters ==
  [][last'.op = "exportToPrometheus" =>
       /\ last'.ex = "none"
       /\ totals'.totalReads =
            Total([o \in Ids |-> _metrics[o].reads], Reporting(_value))
       /\ totals'.totalWrites =
            Total([o \in Ids |-> _metrics[o].writes], Reporting(_value))
       /\ totals'.totalRenders =
            Total([c \in DOMAIN _components |-> _components[c].renders],
                  DOMAIN _components)
       /\ Len(last'.ret) = 23
       /\ Cardinality({j \in 1..23 : last'.ret[j] # <<>>
                                      /\ last'.ret[j][1] = "# TYPE"}) = 6
       /\ \A k \in 1..6 :
            /\ Len(last'.ret[4 * k - 3]) = 3
            /\ last'.ret[4 * k - 3][1] = "# HELP"
            /\ last'.ret[4 * k - 3][2] = CounterNames[k]
            /\ last'.ret[4 * k - 2] = <<"# TYPE", CounterNames[k], "counter">>
            /\ Head(last'.ret[4 * k - 1]) = CounterNames[k]
            /\ NumberOf(Tail(last'.ret[4 * k - 1])) = CountersAfter[k]
       /\ \A k \in 1..5 : last'.ret[4 * k] = <<>>]_vars

\* C27 witness: after one write and one render over the frame budget, the
\* text exported says 1 write, 1 render, 1 slow render and 1 issue.
C27_Witness ==
  /\ last.op = "exportToPrometheus"
  /\ last.ret[7] = <<"js_total_writes", "1">>
  /\ last.ret[11] = <<"js_total_renders", "1">>
  /\ last.ret[15] = <<"js_slow_renders", "1">>
  /\ last.ret[19] = <<"js_performance_issues", "1">>
  /\ last.ret[23] = <<"js_errors", "0">>

\* The ids given out so far.
Given == _observables \cup DOMAIN _components
\* The step creates an observable, a computed or a component.
Registering == last'.op \in {"create", "computed", "component"}

\* C29: every creation of an observable, a computed or a component returns
\* an id that no earlier creation returned and whose number is above the
\* number of every id returned before; resetMetrics leaves the id sequence
\* where it was.
C29_IdsAreFreshAndIncreasing ==
  [][/\ Registering =>
          /\ last'.o \notin Given
          /\ \A i \in Given : i < last'.o
          /\ last'.o \in _observables' \cup DOMAIN _components'
          /\ nextId' > last'.o
     /\ last'.op = "resetMetrics" => nextId' = nextId]_vars

\* C29 witness: a component, then an observable, were created before
\* resetMetrics, and a component created after it got the id 3.
C29_Witness ==
  /\ last.op = "component" /\ last.o = 3 /\ steps.reset = 1
  /\ DOMAIN _components = {1, 3} /\ _observables = {2}

\* The components and observables over the thresholds of findHotspots.
OftenRendered ==
  {c \in DOMAIN _components : /\ _components[c].renders > HotRenders
                              /\ _components[c].lastRenderTime > HotRenderTime}
OftenWritten == {o \in _observables : _metrics[o].writes > HotWrites}
\* score(c) <= score(d), the score being renders x (renderTime / renders)
ScoreLe(c, d) ==
  _components[c].renders * _components[c].renderTime * _components[d].renders
    <= _components[d].renders * _components[d].renderTime * _components[c].renders
WritesLe(o, q) == _metrics[o].writes <= _metrics[q].writes
\* The pairs (x, y) of components with score(x) <= score(y), and of
\* observables with writes(x) <= writes(y).
ScoreOrder ==
  {p \in (DOMAIN _components) \X (DOMAIN _components) : ScoreLe(p[1], p[2])}
WritesOrder == {p \in _observables \X _observables : WritesLe(p[1], p[2])}
IdsIn(list) == {list[j].id : j \in 1..Len(list)}
\* list names, without repetition and best first, the TopCount best of the
\* set among, or all of it when it has no more.
IsTopOf(list, among, notAbove) ==
  /\ Len(list) = IF Cardinality(among) < TopCount THEN Cardinality(among)
                 ELSE TopCount
  /\ Cardinality(IdsIn(list)) = Len(list)
  /\ IdsIn(list) \subseteq among
  /\ \A j, k \in 1..Len(list) : j < k => <<list[k].id, list[j].id>> \in notAbove
  /\ \A x \in among \ IdsIn(list) : \A j \in 1..Len(list) : <<x, list[j].id>> \in notAbove

\* C26: findHotspots returns as hotComponents the (up to) five registered
\* components of highest score among those with more than 10 renders and a
\* last render time above 10, highest score first, and as hotObservables
\* the (up to) five registered observables of most writes among those with
\* more than 20 writes, most writes first: nothing under a threshold is
\* listed and nothing over it is left out for an entity of lower rank.
C26_HotspotsAreTheTopFive ==
  [][last'.op = "findHotspots" =>
       /\ last'.ex = "none"
       /\ IsTopOf(last'.ret.hotComponents, OftenRendered, ScoreOrder)
       /\ IsTopOf(last'.ret.hotObservables, OftenWritten, WritesOrder)]_vars

\* C28: startPeriodicCollection returns a function, with or without a
\* global window; a timer whose handle was called runs no further tick; and
\* calling the handle of a timer that is already stopped changes nothing.
C28_CollectionCanBeCancelled ==
  [][/\ last'.op = "startPeriodicCollection" =>
          /\ last'.ex = "none"
          /\ last'.ret.t = "function"
     /\ last'.op = "tick" => timers[last'.o]
     /\ last'.op = "cancel" =>
          /\ last'.ex = "none"
          /\ ~timers'[last'.o]
          /\ \A t \in DOMAIN timers : t # last'.o => timers'[t] = timers[t]
          /\ UNCHANGED <<memoryUsage, totals, errors, detailed, _metrics>>]_vars

\* The registered entities whose getMetrics throws: an observable (plain or
\* computed) that holds undefined, a component whose getMetrics is overridden
\* by one that throws.
FailingObservables == {o \in _observables : _value[o] = Undefined}
FailingComponents ==
  {c \in DOMAIN _components : _components[c].getMetrics # "ok"}
Failing == Cardinality(FailingObservables) + Cardinality(FailingComponents)
Entries(n, type) == [j \in 1..n |-> [type |-> type]]

\* C25: when getMetrics of registered entities throws, updateGlobalCounters
\* and findHotspots still return normally, the totals are the sums over the
\* other entities, the hotspot lists are the top lists of the other
\* entities, and the error log has got one entry per failing entity.
C25_AggregationIsolatesFailures ==
  [][Failing > 0 =>
       /\ Refreshing =>
            /\ last'.ex = "none"
            /\ totals'.totalReads =
                 Total([o \in Ids |-> _metrics'[o].reads],
                       _observables \ FailingObservables)
            /\ totals'.totalWrites =
                 Total([o \in Ids |-> _metrics'[o].writes],
                       _observables \ FailingObservables)
            /\ totals'.totalRenders =
                 Total([c \in DOMAIN _components |-> _components[c].renders],
                       DOMAIN _components \ FailingComponents)
            /\ errors' = Trim(errors \o Entries(Failing, "metricsError"), maxErrors)
       /\ last'.op = "findHotspots" =>
            /\ last'.ex = "none"
            /\ IsTopOf(last'.ret.hotComponents,
                       OftenRendered \ FailingComponents, ScoreOrder)
            /\ IsTopOf(last'.ret.hotObservables,
                       OftenWritten \ FailingObservables, WritesOrder)
            /\ errors' = Trim(errors \o Entries(Failing, "hotspotAnalysisError"),
                              maxErrors)]_vars

\* The entries of type in the error log.
CountOf(log, type) == Cardinality({j \in 1..Len(log) : log[j].type = type})
ErrorTypes ==
  {"appError", "subscriberError", "computeError", "metricsError",
   "hotspotAnalysisError"}
Throws(c) == mode'[c] \in {"throws", "thrownull"}
\* The calls of the step in which a subscriber threw, and those in which
\* the compute function of a computed, run for a change of a dependency,
\* threw.
SubscriberFailures ==
  Cardinality({j \in 1..Len(last'.trace) :
                 last'.trace[j].cb \in {Thrower, NullThrower}})
TriggerFailures ==
  Cardinality({j \in 1..Len(last'.trace) :
                 /\ last'.trace[j].cb.k = "comp"
                 /\ Throws(last'.trace[j].cb.n)})
\* The failures of the step, by the type they are to be logged with.
FailuresOf(type) ==
  CASE type = "appError" -> IF last'.op = "recordError" THEN 1 ELSE 0
    [] type = "subscriberError" -> SubscriberFailures
    [] type = "computeError" ->
         TriggerFailures
         + (IF /\ last'.op \in {"recompute", "computed"}
               /\ ~computeds'[last'.o].lazy \/ last'.op = "recompute"
               /\ Throws(last'.o)
            THEN 1 ELSE 0)
    [] type = "metricsError" -> IF Refreshing THEN Failing ELSE 0
    [] type = "hotspotAnalysisError" ->
         IF last'.op = "findHotspots" THEN Failing ELSE 0

\* C30: a call of recordError appends its entry whatever the sampling rate
\* is, and every failure of a step (a subscriber that throws when it is
\* notified, a compute function that throws in the initial computation, in
\* one triggered by a dependency or in recompute(), a getMetrics that throws
\* in updateGlobalCounters or findHotspots) adds exactly one entry of its
\* type to the error log, which stays below its cap here.
C30_EveryFailureIsLogged ==
  [][/\ \A type \in ErrorTypes :
          CountOf(errors', type) = CountOf(errors, type) + FailuresOf(type)
     /\ Len(errors') = Len(errors) + Total([type \in ErrorTypes |-> FailuresOf(type)],
                                           ErrorTypes)]_vars

\* The step is a call of computed with a computeFn that is not a function
\* or with deps that is not an array.
BadComputedCall ==
  last'.op = "computed" /\ (~IsFunction(last'.cb) \/ last'.v # Undefined)

\* C31: subscribe called with something that is not a function throws in
\* the call and leaves the subscribers and the counters of every observable
\* as they were; computed called with a computeFn that is not a function or
\* with deps that is not an array throws in the call, registers nothing and
\* subscribes to nothing.
C31_UsageErrorsChangeNothing ==
  [][/\ last'.op = "subscribe" /\ ~IsFunction(last'.cb) =>
          /\ last'.ex = "Error"
          /\ UNCHANGED <<_subscribers, _metrics, handles>>
     /\ BadComputedCall =>
          /\ last'.ex = "Error"
          /\ UNCHANGED <<nextId, _observables, _subscribers, _metrics, _value,
                         computeds, _computeMetrics>>]_vars

\* C31 witness: subscribe(1) has just thrown on an observable that has one
\* subscriber, counted once, two observables being registered.
C31_Witness ==
  /\ last.op = "subscribe" /\ last.cb = NotAFunction(1) /\ last.ex = "Error"
  /\ _subscribers[last.o] = <<Logger(1)>>
  /\ _metrics[last.o].subscriptions = 1
  /\ nextId = 3 /\ _observables = {1, 2}

\* c is a computed with a dependency entry that is not subscribable.
HasInvalid(c) ==
  computeds'[c].isComputed /\ \E j \in 1..Len(computeds'[c].deps) : computeds'[c].deps[j] = 0
\* The entries of the dependency list of c that are the observable o.
EntriesOf(c, o) == {j \in 1..Len(computeds'[c].deps) : computeds'[c].deps[j] = o}
\* The closures of c registered with o.
TriggersIn(subs, c) == {j \in 1..2 : InSeq(Trigger(c, j), subs)}

\* C32: computed() over a dependency list with an entry that is not
\* subscribable returns normally, subscribes one closure per valid entry and
\* nothing else; as long as the computed is not disposed a changing write to
\* a valid dependency recomputes it once per entry and stores the result;
\* and dispose() returns normally and removes its closures from every
\* observable.
C32_InvalidDependenciesTolerated ==
  [][\A c \in Ids : HasInvalid(c) =>
       /\ IsCreation(c) =>
            /\ last'.ex = "none"
            /\ \A o \in Ids :
                 /\ TriggersIn(_subscribers'[o], c) = EntriesOf(c, o)
                 /\ Len(_subscribers'[o]) =
                      Len(_subscribers[o]) + Cardinality(EntriesOf(c, o))
                 /\ _metrics'[o].subscriptions =
                      _metrics[o].subscriptions + Cardinality(EntriesOf(c, o))
       /\ \A o \in Ids :
            IsWrite(o) /\ last'.v # _value[o] /\ c \notin disposed
              /\ c \in _observables /\ EntriesOf(c, o) # {} =>
                /\ last'.ex = "none"
                /\ _computeMetrics'[c].totalComputations =
                     _computeMetrics[c].totalComputations + Cardinality(EntriesOf(c, o))
                /\ _value'[c] = last'.v
       /\ last'.op = "dispose" /\ last'.o = c =>
            /\ last'.ex = "none"
            /\ \A o \in Ids : TriggersIn(_subscribers'[o], c) = {}]_vars

\* C32 witness: a computed over [null, a] that computed at its creation and
\* again when a was written has been disposed, and a has no subscriber.
C32_Witness ==
  \E c \in Computeds :
    /\ last.op = "dispose" /\ last.o = c /\ last.ex = "none"
    /\ computeds[c].deps = <<0, 1>> /\ ~computeds[c].lazy
    /\ _computeMetrics[c].totalComputations = 2
    /\ _value[c] = Num(2) /\ _value[1] = Num(2)
    /\ _subscribers[1] = <<>>

\* C33: in every state the subscriptions counter of an observable is the
\* number of callbacks registered on it, and so never negative, whatever
\* calls of subscribe and of unsubscribe functions have been made.
C33_SubscriptionsCountSubscribers ==
  \A o \in _observables :
    /\ _metrics[o].subscriptions = Len(_subscribers[o])
    /\ _metrics[o].subscriptions >= 0

\* The value of the last call of cb by a notification of o in the trace tr.
LastDelivered(tr, o, cb) ==
  tr[CHOOSE j \in 1..Len(tr) :
       /\ tr[j].o = o /\ tr[j].cb = cb
       /\ \A k \in (j + 1)..Len(tr) : tr[k].o # o \/ tr[k].cb # cb].v

\* C34: when a write by the application returns, the value each registered
\* subscriber it has called received last is the value the observable
\* holds, also when a subscriber wrote into the observable during the
\* notification.
C34_LastDeliveredIsStored ==
  [][\A o \in Ids :
       IsWrite(o) =>
         \A j \in 1..Len(_subscribers'[o]) :
           Times(last'.trace, o, _subscribers'[o][j]) > 0 =>
             LastDelivered(last'.trace, o, _subscribers'[o][j]) = _value'[o]]_vars

\* d is a computed over [c1, c2], which are computeds over [a]; none is lazy
\* or disposed.
Diamond(a, c1, c2, d) ==
  /\ {a, c1, c2, d} \subseteq _observables /\ c1 # c2
  /\ ~IsComputed(a)
  /\ IsComputed(c1) /\ Deps(c1) = <<a>> /\ ~computeds[c1].lazy
  /\ IsComputed(c2) /\ Deps(c2) = <<a>> /\ ~computeds[c2].lazy
  /\ IsComputed(d) /\ Deps(d) = <<c1, c2>> /\ ~computeds[d].lazy
  /\ {c1, c2, d} \cap disposed = {}

\* C35: in a diamond d = c1 + c2 with c1 = a and c2 = a, a changing write to
\* a recomputes d exactly once, and every value the subscribers of d are
\* notified with is the sum of c1 and c2 for the new value of a.
C35_DiamondIsGlitchFree ==
  [][\A a, c1, c2, d \in Ids :
       Diamond(a, c1, c2, d) /\ IsWrite(a) /\ last'.v # _value[a] =>
         /\ _computeMetrics'[d].totalComputations =
              _computeMetrics[d].totalComputations + 1
         /\ \A j \in 1..Len(last'.trace) :
              last'.trace[j].o = d => last'.trace[j].v = JsAdd(last'.v, last'.v)]_vars

\* What the reactive core is observed by: the stored values, the subscriber
\* sets, the reads, writes and subscriptions counters, the computation
\* counters, the calls of subscribers made, and how the operation ended.
Counts(m) ==
  [o \in Ids |-> [reads |-> m[o].reads, writes |-> m[o].writes,
                  subscriptions |-> m[o].subscriptions]]
Reactive(r) ==
  [value |-> r.s.value, subscribers |-> r.s.subscribers,
   counters |-> Counts(r.s.metrics), compute |-> r.s.cm, trace |-> r.s.trace,
   ex |-> r.ex]
\* The same, of the step taken.
ReactiveStep ==
  [value |-> _value', subscribers |-> _subscribers', counters |-> Counts(_metrics'),
   compute |-> _computeMetrics', trace |-> last'.trace, ex |-> last'.ex]
\* The state before the step, had the sampling rate been rate, detailed
\* mode been detail and Math.random() returned d.
Under(rate, detail, d) ==
  [State(d) EXCEPT !.samplingRate = rate, !.isDetailedMode = detail]
\* The operation of the step, run from the state s.
Rerun(s) ==
  CASE last'.op = "write" -> SetValue(s, last'.o, last'.v)
    [] last'.op = "read" -> Ok(Get(s, last'.o).s)
    [] last'.op = "subscribe" -> SubscribeCall(s, last'.o, last'.cb)
    [] last'.op = "recompute" -> PerformComputation(s, last'.o)
    [] last'.op = "computed" ->
         Computed(s, last'.o, computeds'[last'.o].deps, computeds'[last'.o].lazy,
                  mode'[last'.o])
    [] last'.op = "create" -> Ok(Construct(s, last'.o, last'.v))

\* C36: what a create, subscribe, write, read or recompute does to the
\* stored values, to the subscriber sets, to the reads, writes and
\* subscriptions counters and to the computation counters, which
\* subscribers it calls with what, and how it ends, are the same for every
\* sampling rate, for detailed mode on and off and for every random draw;
\* and a read returns the stored value under each of them.
C36_SamplingDoesNotInterfere ==
  [][last'.op \in {"write", "read", "subscribe", "recompute", "computed", "create"} =>
       /\ \A rate \in SamplingRates, detail \in BOOLEAN, d \in Draws :
            Reactive(Rerun(Under(rate, detail, d))) = ReactiveStep
       /\ last'.op = "read" => last'.v = _value[last'.o]]_vars

\* C36 witness: with the sampling rate at 0 and detailed mode on, a write
\* has just notified a logger, recorded no sample and added a history
\* entry, after a read that was counted.
C36_Witness ==
  /\ samplingRate = Num(0) /\ isDetailedMode
  /\ last.op = "write" /\ last.o = 1 /\ Len(last.trace) >= 1
  /\ last.trace[1].cb = Logger(1)
  /\ detailed["writeTime"] = <<>>
  /\ _metrics[1].reads = 1 /\ _metrics[1].writes = 1
  /\ Len(_metrics[1].history) >= 1

\* C37: as long as resetMetrics has not been called, the totalReads and
\* totalWrites a refresh of the global counters reports are not below those
\* the refresh before it reported, whatever was created, read, written,
\* subscribed to and recomputed in between.
C37_TotalsNeverDecrease ==
  [][Refreshing /\ steps.reset = 0 =>
       /\ totals'.totalReads >= totals.totalReads
       /\ totals'.totalWrites >= totals.totalWrites]_vars

\* The step repeats the query the step before it made.
QueryOps == {"getMetrics", "updateGlobalCounters", "findHotspots", "exportToPrometheus"}
QueryAgain == last.op \in QueryOps /\ last'.op = last.op /\ last'.v = last.v
\* What the query l returned, the error log and its length left out.
ApartFromErrors(l) ==
  IF l.ex # "none" THEN Undefined
  ELSE CASE l.op = "getMetrics" -> [l.ret EXCEPT !.global.errors = <<>>]
         [] l.op = "exportToPrometheus" -> SubSeq(l.ret, 1, Len(l.ret) - 1)
         [] OTHER -> l.ret
\* The type a query logs a getMetrics failure with.
FailureType ==
  IF last'.op = "findHotspots" THEN "hotspotAnalysisError" ELSE "metricsError"

\* C38 as stated: a query repeated at once returns what it returned before
\* and leaves the error log, the issue log, the metric series and the
\* counters of every entity unchanged.
C38_AsStated ==
  [][QueryAgain =>
       /\ last'.ex = last.ex
       /\ last'.ret = last.ret
       /\ UNCHANGED <<errors, performanceIssues, detailed, _metrics,
                      _computeMetrics, _components>>]_vars

\* C38: a query repeated at once ends as it ended before, returns what it
\* returned before apart from the error log and its length, and leaves the
\* issue log, the metric series, the global counters and the values,
\* subscribers and counters of every entity unchanged; to the error log it
\* appends one entry for each registered entity whose getMetrics throws
\* when it returns, and fewer than that when it throws.
C38_QueriesOnlyLogFailures ==
  [][QueryAgain =>
       /\ last'.ex = last.ex
       /\ ApartFromErrors(last') = ApartFromErrors(last)
       /\ UNCHANGED <<performanceIssues, detailed, totals, _metrics,
                      _computeMetrics, _components, _value, _subscribers>>
       /\ IF last'.ex = "none"
          THEN errors' = Trim(errors \o Entries(Failing, FailureType), maxErrors)
          ELSE \E n \in 0..(Failing - 1) :
                 errors' = Trim(errors \o Entries(n, FailureType), maxErrors)]_vars

\* C38 witness: getMetrics has just been called a second time in a row
\* with one entity that throws registered next to an observable that was
\* read, and the error log holds the two entries of the two calls.
C38_Witness ==
  /\ last.op = "getMetrics" /\ steps.query = 2 /\ last.ex = "none"
  /\ Failing = 1
  /\ errors = Entries(2, "metricsError")
  /\ last.ret.global.errors = errors
  /\ totals.totalReads = 1

(***************************************************************************)
(* SpecBind: two observables bound both ways, each with a subscriber that  *)
(* writes the value it receives into the other, next to a logger.          *)
(***************************************************************************)
BindVals == {Num(1), Num(2), NaN, Obj(1)}

NextBind ==
  \/ nextId <= MaxSources /\ \E v \in BindVals : CreateObservable(v)
  \/ steps.sub < BindSubs
       /\ \E o \in Plain :
            \E cb \in {Logger(1)} \cup {Forward(p) : p \in Plain \ {o}} :
              Subscribe(o, cb)
  \/ steps.write < BindWrites /\ \E o \in Plain, v \in BindVals : Write(o, v)

SpecBind == Init /\ [][NextBind]_vars

\* a and b are bound both ways.
Bound(a, b) == a # b /\ Registered(a, Forward(b)) /\ Registered(b, Forward(a))
\* No subscriber of an observable was called more than once.
CalledOnceAtMost(tr) ==
  \A j \in 1..Len(tr), k \in 1..Len(tr) :
    tr[j].o = tr[k].o /\ tr[j].cb = tr[k].cb => j = k

\* C39 as stated: with a and b bound both ways, any write to a returns
\* after each subscriber was called at most once and leaves a and b
\* holding the same value.
C39_AsStated ==
  [][\A a \in Ids, b \in Ids :
       Bound(a, b) /\ IsWrite(a) =>
         /\ last'.ex = "none"
         /\ CalledOnceAtMost(last'.trace)
         /\ _value'[a] = _value'[b]]_vars

\* C39: with a and b bound both ways, any write to a returns after each
\* subscriber was called at most once; a write of a value that is not
\* identity-equal to the one a holds leaves a and b holding the value
\* written, and a write of an identity-equal value calls no subscriber and
\* leaves a and b as they were.
C39_BindingTerminates ==
  [][\A a \in Ids, b \in Ids :
       Bound(a, b) /\ IsWrite(a) =>
         /\ last'.ex = "none"
         /\ CalledOnceAtMost(last'.trace)
         /\ IF ObjectIs(_value[a], last'.v)
            THEN last'.trace = <<>> /\ UNCHANGED _value
            ELSE /\ _value'[a] = last'.v /\ _value'[b] = last'.v
                 /\ Times(last'.trace, a, Forward(b)) = 1
                 /\ Times(last'.trace, b, Forward(a))
                      = IF ObjectIs(_value[b], last'.v) THEN 0 ELSE 1]_vars

\* C39 witness: observable 1, bound both ways to observable 2, has been
\* written with NaN; the write went to 2 and came back to 1, where it
\* stopped, and both hold NaN.
C39_Witness ==
  /\ Registered(1, Forward(2)) /\ Registered(2, Forward(1))
  /\ last.op = "write" /\ last.o = 1 /\ last.v = NaN /\ last.ex = "none"
  /\ Len(last.trace) = 2
  /\ last.trace[1] = [o |-> 1, cb |-> Forward(2), v |-> NaN]
  /\ last.trace[2] = [o |-> 2, cb |-> Forward(1), v |-> NaN]
  /\ _value[1] = NaN /\ _value[2] = NaN

\* C40: when a subscriber throws null during the notification of a write,
\* recordError appends an entry to the error log, every registered
\* subscriber of the observable written is called once, the stored value
\* is the value written, and the write returns normally.
C40_NonErrorThrowIsolated ==
  [][\A o \in Ids :
       IsWrite(o) /\ Times(last'.trace, o, NullThrower) > 0 =>
         /\ last'.ex = "none"
         /\ _value'[o] = last'.v
         /\ Len(errors') > Len(errors) \/ Len(errors') = maxErrors.n
         /\ errors'[Len(errors')].type \in {"subscriberError", "computationError"}
         /\ \A j \in 1..Len(_subscribers'[o]) :
              Times(last'.trace, o, _subscribers'[o][j]) = 1]_vars

====
